---------------------------- MODULE Spec2Model ----------------------------
(***************************************************************************)
(* Dune ISTL communication layer: the Interface projection of the remote   *)
(* index table and the BufferedCommunicator exchange (build, forward,      *)
(* backward) running on a small peer group over a point-to-point transport *)
(* with synchronous sends, wait-any receives and a MIN all-reduce.         *)
(***************************************************************************)
EXTENDS Integers, Sequences, FiniteSets, TLC

(* ------------------------------ bounds -------------------------------- *)

\* number of global indices of the drawn topologies (SpecIface)
MaxGlobal == 2
\* largest number of primitive elements one index carries (VariableSize)
MaxCount == 3
\* number of forward/backward calls every process makes
MaxCalls == 2
\* number of requests on which the transport may report an error
MaxErrors == 1
\* sizeof(CommPolicy<Data>::IndexedType), in bytes
ElemSize == 8

(* --------------------------- the peer group --------------------------- *)

Procs == {0, 1, 2}

Attrs == {"owner", "copy", "overlap"}

\* attributes the drawn topologies use
DrawnAttrs == {"owner", "copy"}

\* content of a buffer element nothing was written to yet (new char[n])
Uninit == -1

VARIABLES
  topo,        \* ParallelIndexSet of every process: position -> (global, attribute)
  sourceSet,   \* the source attribute predicate of the Interface
  destSet,     \* the destination attribute predicate of the Interface
  ifaceBuilt,  \* processes whose Interface is built
  iface,       \* Interface::interfaces(): process -> peer -> (send, receive)
  flag,        \* CommPolicy<Data>::IndexedTypeFlag: "SizeOne" or "VariableSize"
  policy,      \* the GatherScatter policy: "Copy" or "Sum"
  script,      \* the calls every process makes, "F" (forward) or "B" (backward)
  errBudget,   \* requests the transport may still fail
  pc,          \* position of every process
  callIdx,     \* number of the call a process is in (1-based)
  src,         \* the source container of every process
  dst,         \* the destination container of every process
  interface_,  \* BufferedCommunicator::interface_ is set (non-null)
  msgInfo,     \* BufferedCommunicator::messageInformation_
  bufferSize,  \* BufferedCommunicator::bufferSize_ (bytes), <<[0], [1]>>
  buffers,     \* BufferedCommunicator::buffers_, as sequences of elements
  sendReq,     \* sendRequests of the running call: peer -> state
  recvReq,     \* recvRequests of the running call: peer -> state; a request wait-any
               \* returned is "doneOk" (status ok) or "doneErr" (status error)
  waitCount,   \* loop counter i of the wait-any loop
  success,     \* local success flag of sendRecv
  contrib,     \* all-reduce contributions: call -> process -> -1 (none), 0, 1
  dstAfter,    \* destination container at the end of every call
  srcAfter,    \* source container at the end of every call
  outcome,     \* how every call ended: "none", "ok", "error"
  errCalls,    \* calls in which the transport reported an error, per process
  scatLog,     \* scatter calls of the running call: peer -> <<slot, sub, bufIndex>>*
  arrival,     \* peers in the order wait-any returned them in the last call
  bufId,       \* BufferedCommunicator::buffers_ as pointers: allocation ids, 0 is null
  allocLog,    \* per process, the arrays and descriptors allocated, in order (id = index)
  relLog,      \* per process, the ids released (delete[], MPI_Type_free), in order
  rebuildAt,   \* number of the call after which every process frees and rebuilds (0: never)
  same,        \* the calls are the one-container variants forward(data) / backward(data)
  created_,    \* DatatypeCommunicator::created_
  requests_,   \* DatatypeCommunicator::requests_ as pointers: allocation ids, 0 is null
  messageTypes,\* DatatypeCommunicator::messageTypes: peer -> (send, receive) descriptor
  dtReq,       \* the persistent requests: direction -> peer -> (recv, send) state
  gli,         \* SequentialInformation::gli
  seqV,        \* the vector the caller passes to copyOwnerToAll and project
  seqV1,       \* the second vector the caller passes to copyOwnerToAll
  seqIn,       \* gli, seqV and seqV1 when the SequentialInformation was constructed
  ret,         \* the last call on the SequentialInformation: (op, arg, val)
  indexSet,    \* pinfo.indexSet() of the graph creator: (local, attribute) in order
  of,          \* the overlap flag set passed to create
  category,    \* the solver category of the operator: "overlapping", "nonoverlapping"
  excluded,    \* the vector of flags passed to create, by local position (1-based)
  excludedIn,  \* excluded before create
  graphs       \* the GraphTuples create returned and free has not seen: none or one

vars == <<topo, sourceSet, destSet, ifaceBuilt, iface, flag, policy, script,
          errBudget, pc, callIdx, src, dst, interface_, msgInfo, bufferSize,
          buffers, sendReq, recvReq, waitCount, success, contrib,
          dstAfter, srcAfter, outcome, errCalls, scatLog, arrival,
          bufId, allocLog, relLog, rebuildAt, same,
          created_, requests_, messageTypes, dtReq,
          gli, seqV, seqV1, seqIn, ret, indexSet, of, category, excluded, excludedIn, graphs>>

\* allocation bookkeeping
heapVars == <<bufId, allocLog, relLog>>

\* what the driver of the processes fixed
modeVars == <<rebuildAt, same>>

\* state of the DatatypeCommunicator
dtVars == <<created_, requests_, messageTypes, dtReq>>

\* state of the SequentialInformation and its caller
seqVars == <<gli, seqV, seqV1, seqIn, ret>>

\* state of the PropertiesGraphCreator and its caller
graphVars == <<indexSet, of, category, excluded, excludedIn, graphs>>

(* ------------------------------ helpers ------------------------------- *)

RECURSIVE SortedSeq(_)
SortedSeq(S) ==
  IF S = {} THEN <<>>
  ELSE LET m == CHOOSE x \in S : \A y \in S : x <= y
       IN <<m>> \o SortedSeq(S \ {m})

Reverse(s) == [i \in 1..Len(s) |-> s[Len(s) + 1 - i]]

RECURSIVE SumSeq(_)
SumSeq(s) == IF s = <<>> THEN 0 ELSE Head(s) + SumSeq(Tail(s))

Min(S) == CHOOSE x \in S : \A y \in S : x <= y

(* ------------------- ParallelIndexSet (external) ---------------------- *)

\* number of local indices of process p
NLocal(t, p) == Len(t[p])

\* local positions are 0 .. NLocal-1
Positions(t, p) == 0 .. (NLocal(t, p) - 1)

GlobalAt(t, p, pos) == t[p][pos + 1].g

AttrAt(t, p, pos) == t[p][pos + 1].a

Held(t, p) == {t[p][k].g : k \in 1..Len(t[p])}

PosOf(t, p, g) == CHOOSE pos \in Positions(t, p) : GlobalAt(t, p, pos) = g


(* -------------------- RemoteIndices and Interface --------------------- *)

\* peers that hold at least one global index p holds too
RemotePeers(t, p) == {q \in Procs \ {p} : Held(t, p) \cap Held(t, q) # {}}

\* the remote index list of p for peer q, ascending in the global index:
\* local position, local attribute, attribute on the peer
RemoteIndexList(t, p, q) ==
  LET gs == SortedSeq(Held(t, p) \cap Held(t, q))
  IN [k \in 1..Len(gs) |->
        [pos |-> PosOf(t, p, gs[k]),
         al  |-> AttrAt(t, p, PosOf(t, p, gs[k])),
         ar  |-> AttrAt(t, q, PosOf(t, q, gs[k]))]]

ProjectPos(list) == [k \in 1..Len(list) |-> list[k].pos]

\* local attribute in sourceSet and remote attribute in destSet: send
SendSelected(e, S, D) == e.al \in S /\ e.ar \in D

\* a receive entry selected with the send condition (predicates not swapped)
ReceiveSelectedUnswapped(e, S, D) == e.al \in S /\ e.ar \in D

\* local attribute in destSet and remote attribute in sourceSet: receive
ReceiveSelected(e, S, D) == e.al \in D /\ e.ar \in S

SendList(t, p, q, S, D) ==
  ProjectPos(SelectSeq(RemoteIndexList(t, p, q), LAMBDA e : SendSelected(e, S, D)))

ReceiveList(t, p, q, S, D) ==
  ProjectPos(SelectSeq(RemoteIndexList(t, p, q), LAMBDA e : ReceiveSelected(e, S, D)))

\* the Interface of p: one entry per peer with a non-empty send or receive list
InterfaceOf(t, p, S, D) ==
  LET peers == {q \in RemotePeers(t, p) :
                  SendList(t, p, q, S, D) # <<>> \/ ReceiveList(t, p, q, S, D) # <<>>}
  IN [q \in peers |-> [send    |-> SendList(t, p, q, S, D),
                       receive |-> ReceiveList(t, p, q, S, D)]]

\* the sequence of global indices a list of local positions of p stands for
GlobalSeq(t, p, list) == [k \in 1..Len(list) |-> GlobalAt(t, p, list[k])]

Peers(p) == DOMAIN iface[p]

\* an Interface whose map is never iterated
PeerSeqNone(p) == <<>>

\* peers in the iteration order of the std::map: ascending rank
PeerSeq(p) == SortedSeq(Peers(p))

(* ----------------------------- topologies ----------------------------- *)

\* the index set of p for an attribute assignment a: [global -> attribute or "none"];
\* odd ranks number their local indices against the global order
IndexSetOf(a, p) ==
  LET gs  == SortedSeq({g \in DOMAIN a : a[g] # "none"})
      ord == IF p % 2 = 1 THEN Reverse(gs) ELSE gs
  IN [k \in 1..Len(ord) |-> [g |-> ord[k], a |-> a[ord[k]]]]

\* ranks 0 and 1 hold any assignment of the drawn attributes (or nothing) to the
\* global indices; rank 2 holds all of them under one attribute, or none
DrawnAssignments ==
  {asg \in [Procs -> [0..(MaxGlobal - 1) -> DrawnAttrs \cup {"none"}]] :
     \A g \in 0..(MaxGlobal - 1) : asg[2][g] = asg[2][0]}

DrawnTopologies == {[p \in Procs |-> IndexSetOf(asg[p], p)] : asg \in DrawnAssignments}

\* two ranks exchange, the third holds nothing: rank 0 owns 0,1,2 and copies 3,
\* rank 1 owns 3 and copies 1,2
TopoTwoRank ==
  [p \in Procs |->
     CASE p = 0 -> <<[g |-> 0, a |-> "owner"], [g |-> 1, a |-> "owner"],
                     [g |-> 2, a |-> "owner"], [g |-> 3, a |-> "copy"]>>
       [] p = 1 -> <<[g |-> 3, a |-> "owner"], [g |-> 2, a |-> "copy"],
                     [g |-> 1, a |-> "copy"]>>
       [] OTHER -> <<>>]

\* three ranks: rank k owns global k; rank 0 copies 1 and 2, ranks 1 and 2 copy 0
TopoStar ==
  [p \in Procs |->
     CASE p = 0 -> <<[g |-> 0, a |-> "owner"], [g |-> 1, a |-> "copy"],
                     [g |-> 2, a |-> "copy"]>>
       [] p = 1 -> <<[g |-> 1, a |-> "owner"], [g |-> 0, a |-> "copy"]>>
       [] OTHER -> <<[g |-> 0, a |-> "copy"], [g |-> 2, a |-> "owner"]>>]

\* one global index held by all three ranks: copy on 0, owner on 1, overlap on 2
TopoShared ==
  [p \in Procs |->
     CASE p = 0 -> <<[g |-> 0, a |-> "copy"]>>
       [] p = 1 -> <<[g |-> 0, a |-> "owner"]>>
       [] OTHER -> <<[g |-> 0, a |-> "overlap"]>>]

\* topology and predicate pair of the exchanges
Scenarios ==
  { [t |-> TopoTwoRank, S |-> {"owner"},            D |-> {"copy"}],
    [t |-> TopoStar,    S |-> {"owner"},            D |-> {"copy"}],
    [t |-> TopoShared,  S |-> {"owner", "overlap"}, D |-> {"copy"}],
    [t |-> TopoTwoRank, S |-> {"overlap"},          D |-> {"copy"}] }

(* ------------------------- containers and policies -------------------- *)

\* layout of the containers: number of primitive elements at a global index
\* (the same on every rank and in source and destination)
CountOf(g) == 1 + (g % MaxCount)

Block(base, k) == [j \in 1..k |-> base + 1000 * (j - 1)]

SrcBase(p, g) == 10 * (p + 1) + g

HasOwner(t, g) == \E p \in Procs : \E k \in 1..Len(t[p]) : t[p][k] = [g |-> g, a |-> "owner"]

OwnerOf(t, g) == CHOOSE p \in Procs : \E k \in 1..Len(t[p]) : t[p][k] = [g |-> g, a |-> "owner"]

\* for the additive policy the destination entries of odd global indices start equal
\* to the owner's source entry
DstBase(t, pol, p, g) ==
  IF pol = "Sum" /\ g % 2 = 1 /\ HasOwner(t, g) THEN SrcBase(OwnerOf(t, g), g)
  ELSE 100 + 10 * (p + 1) + g

Element(fl, base, g) == IF fl = "SizeOne" THEN base ELSE Block(base, CountOf(g))

InitSrc(t, fl, p) ==
  [pos \in Positions(t, p) |->
     Element(fl, SrcBase(p, GlobalAt(t, p, pos)), GlobalAt(t, p, pos))]

InitDst(t, fl, pol, p) ==
  [pos \in Positions(t, p) |->
     Element(fl, DstBase(t, pol, p, GlobalAt(t, p, pos)), GlobalAt(t, p, pos))]

\* the default getSize used for a container of blocks
getSizeDefault(fl, data, index) == 1

\* CommPolicy<V>::getSize: 1 by default, the block size for a VariableBlockVector
getSize(fl, data, index) == IF fl = "SizeOne" THEN 1 ELSE Len(data[index])

\* GatherScatter::gather(data, i)
gather(pol, data, i) == data[i]

\* GatherScatter::gather(data, i, j)
gatherSub(pol, data, i, j) == data[i][j + 1]

\* a scatter that adds whatever the policy
CombineAdd(pol, old, v) == old + v

\* a scatter that assigns whatever the policy
CombineAssign(pol, old, v) == v

\* the scatter of the policy: Copy assigns, Sum adds
Combine(pol, old, v) == IF pol = "Copy" THEN v ELSE old + v

\* GatherScatter::scatter(data, v, i)
scatter(pol, data, v, i) == [data EXCEPT ![i] = Combine(pol, @, v)]

\* GatherScatter::scatter(data, v, i, j)
scatterSub(pol, data, v, i, j) == [data EXCEPT ![i][j + 1] = Combine(pol, @, v)]

(* ------------------------ BufferedCommunicator ------------------------ *)

MessageSizeCalculatorSizeOne(info) == Len(info)

\* a size calculator that counts the indices of the list, not their elements
MessageSizeCalculatorEntries(fl, data, info) == Len(info)

RECURSIVE MessageSizeCalculatorVariable(_, _, _)
MessageSizeCalculatorVariable(fl, data, info) ==
  IF info = <<>> THEN 0
  ELSE getSize(fl, data, Head(info)) + MessageSizeCalculatorVariable(fl, data, Tail(info))

MessageSizeCalculator(fl, data, info) ==
  IF fl = "SizeOne" THEN MessageSizeCalculatorSizeOne(info)
  ELSE MessageSizeCalculatorVariable(fl, data, info)

\* a message information whose offset is kept in bytes instead of elements
MessageInformationBytes(start, size) == [start_ |-> start * ElemSize, size_ |-> size]

MessageInformation(start, size) == [start_ |-> start, size_ |-> size]

\* std::map::insert: an entry whose key is present is left alone
MapInsert(m, k, v) ==
  IF k \in DOMAIN m THEN m ELSE [x \in DOMAIN m \cup {k} |-> IF x = k THEN v ELSE m[x]]

\* the loop of build over the peers of the interface, in map order;
\* acc = [info, b0, b1] with b0, b1 the element counts so far
RECURSIVE BuildLoop(_, _, _, _, _, _)
BuildLoop(peers, ifc, fl, source, dest, acc) ==
  IF peers = <<>> THEN acc
  ELSE LET q      == Head(peers)
           noSend == MessageSizeCalculator(fl, source, ifc[q].send)
           noRecv == MessageSizeCalculator(fl, dest, ifc[q].receive)
           entry  == [first  |-> MessageInformation(acc.b0, noSend * ElemSize),
                      second |-> MessageInformation(acc.b1, noRecv * ElemSize)]
       IN BuildLoop(Tail(peers), ifc, fl, source, dest,
                    [info |-> MapInsert(acc.info, q, entry),
                     b0   |-> acc.b0 + noSend,
                     b1   |-> acc.b1 + noRecv])

\* an array of n uninitialised elements
NewBuffer(bytes) == [k \in 1..(bytes \div ElemSize) |-> Uninit]

\* buffer[k] for a 0-based element index k; outside the allocation the read is
\* of memory that was never written
ReadBuffer(buffer, k) == IF k + 1 \in DOMAIN buffer THEN buffer[k + 1] ELSE Uninit

\* the values the SizeOne gatherer writes for one peer's list
GatherListSizeOne(pol, data, list) == [k \in 1..Len(list) |-> gather(pol, data, list[k])]

RECURSIVE GatherSubs(_, _, _, _, _)
GatherSubs(pol, data, local, j, n) ==
  IF j >= n THEN <<>>
  ELSE <<gatherSub(pol, data, local, j)>> \o GatherSubs(pol, data, local, j + 1, n)

\* the values the VariableSize gatherer writes for one peer's list
RECURSIVE GatherListVariable(_, _, _, _)
GatherListVariable(fl, pol, data, list) ==
  IF list = <<>> THEN <<>>
  ELSE GatherSubs(pol, data, Head(list), 0, getSize(fl, data, Head(list)))
       \o GatherListVariable(fl, pol, data, Tail(list))

\* a gatherer that walks the send list in both directions
GatherSideSend(entry, forward) == entry.send

\* a scatterer that walks the send list in both directions
ScatterSideSend(entry, forward) == entry.send

\* the list the gatherer walks for a peer: send in forward, receive in backward
GatherSide(entry, forward) == IF forward THEN entry.send ELSE entry.receive

\* the list the scatterer walks for a peer: receive in forward, send in backward
ScatterSide(entry, forward) == IF forward THEN entry.receive ELSE entry.send

\* the values the gatherer writes, peer after peer in map order, from index 0
RECURSIVE GatherValues(_, _, _, _, _, _)
GatherValues(peers, ifc, fl, pol, forward, data) ==
  IF peers = <<>> THEN <<>>
  ELSE (IF fl = "SizeOne"
        THEN GatherListSizeOne(pol, data, GatherSide(ifc[Head(peers)], forward))
        ELSE GatherListVariable(fl, pol, data, GatherSide(ifc[Head(peers)], forward)))
       \o GatherValues(Tail(peers), ifc, fl, pol, forward, data)

\* a gatherer that writes the number of values in front of the values
MessageGathererPrefixed(peers, ifc, fl, pol, forward, data, buffer) ==
  LET vals == <<Len(GatherValues(peers, ifc, fl, pol, forward, data))>>
              \o GatherValues(peers, ifc, fl, pol, forward, data)
  IN [k \in DOMAIN buffer |-> IF k <= Len(vals) THEN vals[k] ELSE buffer[k]]

\* MessageGatherer: buffer[index++] = gather(...), index starting at 0
MessageGatherer(peers, ifc, fl, pol, forward, data, buffer) ==
  LET vals == GatherValues(peers, ifc, fl, pol, forward, data)
  IN [k \in DOMAIN buffer |-> IF k <= Len(vals) THEN vals[k] ELSE buffer[k]]

\* MessageScatterer for SizeOne: scatter(data, buffer[i], info[i]);
\* buffer is the receive buffer, start the slab's element offset
RECURSIVE ScattererSizeOne(_, _, _, _, _, _)
ScattererSizeOne(pol, info, buffer, start, i, st) ==
  IF i >= Len(info) THEN st
  ELSE ScattererSizeOne(pol, info, buffer, start, i + 1,
         [data |-> scatter(pol, st.data, ReadBuffer(buffer, start + i), info[i + 1]),
          log  |-> Append(st.log, <<i, 0, i>>)])

\* MessageScatterer for VariableSize:
\* for i, for j < getSize(data, info[i]): scatter(data, buffer[index++], info[i], j)
RECURSIVE ScattererVariable(_, _, _, _, _, _, _, _)
ScattererVariable(fl, pol, info, buffer, start, i, j, st) ==
  IF i >= Len(info) THEN st
  ELSE IF j >= getSize(fl, st.data, info[i + 1])
       THEN ScattererVariable(fl, pol, info, buffer, start, i + 1, 0, st)
       ELSE ScattererVariable(fl, pol, info, buffer, start, i, j + 1,
              [data  |-> scatterSub(pol, st.data,
                                    ReadBuffer(buffer, start + st.index), info[i + 1], j),
               log   |-> Append(st.log, <<i, j, st.index>>),
               index |-> st.index + 1])

\* the container after the scatter of one peer's slab, and the scatter calls made,
\* each <<slot in the list, subindex, element of the slab read>>
MessageScatterer(fl, pol, info, data, buffer, start) ==
  IF fl = "SizeOne"
  THEN ScattererSizeOne(pol, info, buffer, start, 0, [data |-> data, log |-> <<>>])
  ELSE LET r == ScattererVariable(fl, pol, info, buffer, start, 0, 0,
                                   [data |-> data, log |-> <<>>, index |-> 0])
       IN [data |-> r.data, log |-> r.log]


(* ------------------------------ the program --------------------------- *)

Calls == 1..MaxCalls

Scripts == [Calls -> {"F", "B"}]

\* whether call k is a forward call (sendRecv<GatherScatter, true>)
IsForward(k) == script[k] = "F"

NullRequests == [q \in Procs |-> "null"]

\* no persistent request exists
NullDtRequests == [d \in {0, 1} |-> [q \in Procs |-> [recv |-> "null", send |-> "null"]]]

\* no SequentialInformation in use
SeqIdle ==
  /\ gli = 0
  /\ seqV = <<>>
  /\ seqV1 = <<>>
  /\ seqIn = [gli |-> 0, v |-> <<>>, v1 |-> <<>>]
  /\ ret = [op |-> "none", arg |-> 0, val |-> 0]

\* no PropertiesGraphCreator in use
GraphIdle ==
  /\ indexSet = <<>>
  /\ of = {}
  /\ category = "overlapping"
  /\ excluded = <<>>
  /\ excludedIn = <<>>
  /\ graphs = <<>>

InitCommon(t, fl, pol) ==
  /\ ifaceBuilt = {}
  /\ iface = [p \in Procs |-> <<>>]
  /\ pc = [p \in Procs |-> "start"]
  /\ callIdx = [p \in Procs |-> 1]
  /\ src = [p \in Procs |-> InitSrc(t, fl, p)]
  /\ dst = [p \in Procs |-> IF same THEN InitSrc(t, fl, p) ELSE InitDst(t, fl, pol, p)]
  /\ interface_ = [p \in Procs |-> FALSE]
  /\ msgInfo = [p \in Procs |-> <<>>]
  /\ bufferSize = [p \in Procs |-> [b0 |-> 0, b1 |-> 0]]
  /\ buffers = [p \in Procs |-> [b0 |-> <<>>, b1 |-> <<>>]]
  /\ sendReq = [p \in Procs |-> NullRequests]
  /\ recvReq = [p \in Procs |-> NullRequests]
  /\ waitCount = [p \in Procs |-> 0]
  /\ success = [p \in Procs |-> 1]
  /\ contrib = [k \in Calls |-> [p \in Procs |-> -1]]
  /\ dstAfter = [p \in Procs |-> [k \in Calls |-> dst[p]]]
  /\ srcAfter = [p \in Procs |-> [k \in Calls |-> InitSrc(t, fl, p)]]
  /\ outcome = [p \in Procs |-> [k \in Calls |-> "none"]]
  /\ errCalls = {}
  /\ scatLog = [p \in Procs |-> [q \in Procs |-> <<>>]]
  /\ arrival = [p \in Procs |-> <<>>]
  /\ bufId = [p \in Procs |-> [b0 |-> 0, b1 |-> 0]]
  /\ allocLog = [p \in Procs |-> <<>>]
  /\ relLog = [p \in Procs |-> <<>>]
  /\ created_ = [p \in Procs |-> FALSE]
  /\ requests_ = [p \in Procs |-> [r0 |-> 0, r1 |-> 0]]
  /\ messageTypes = [p \in Procs |-> <<>>]
  /\ dtReq = [p \in Procs |-> NullDtRequests]

\* the exchanges: a scenario, a data kind, a policy, a script and an error budget
Init ==
  /\ \E sc \in Scenarios :
       /\ topo = sc.t
       /\ sourceSet = sc.S
       /\ destSet = sc.D
  /\ flag \in {"SizeOne", "VariableSize"}
  /\ policy \in {"Copy", "Sum"}
  /\ script \in Scripts
  /\ errBudget = MaxErrors
  /\ rebuildAt = 0
  /\ same = FALSE
  /\ InitCommon(topo, flag, policy)
  /\ SeqIdle
  /\ GraphIdle

\* the Interface alone: every drawn topology and every pair of predicates
InitIface ==
  /\ topo \in DrawnTopologies
  /\ sourceSet \in SUBSET DrawnAttrs
  /\ destSet \in SUBSET DrawnAttrs
  /\ flag = "SizeOne"
  /\ policy = "Copy"
  /\ script = [k \in Calls |-> "F"]
  /\ errBudget = 0
  /\ rebuildAt = 0
  /\ same = FALSE
  /\ InitCommon(topo, flag, policy)
  /\ SeqIdle
  /\ GraphIdle

\* Interface::build on process p
BuildInterface(p) ==
  /\ pc[p] = "start"
  /\ iface' = [iface EXCEPT ![p] = InterfaceOf(topo, p, sourceSet, destSet)]
  /\ ifaceBuilt' = ifaceBuilt \cup {p}
  /\ pc' = [pc EXCEPT ![p] = "idle"]
  /\ UNCHANGED <<topo, sourceSet, destSet, flag, policy, script, errBudget, callIdx,
                 src, dst, interface_, msgInfo, bufferSize, buffers, sendReq, recvReq,
                 waitCount, success, contrib, dstAfter, srcAfter, outcome, errCalls,
                 scatLog, arrival>>
  /\ UNCHANGED <<heapVars, modeVars, seqVars, graphVars, dtVars>>

\* BufferedCommunicator::build(interface) / build(source, dest, interface)
Build(p) ==
  /\ pc[p] = "idle"
  /\ LET r == BuildLoop(PeerSeq(p), iface[p], flag, src[p], dst[p],
                        [info |-> msgInfo[p], b0 |-> 0, b1 |-> 0])
     IN /\ msgInfo' = [msgInfo EXCEPT ![p] = r.info]
        /\ bufferSize' = [bufferSize EXCEPT ![p] = [b0 |-> r.b0 * ElemSize,
                                                    b1 |-> r.b1 * ElemSize]]
        /\ buffers' = [buffers EXCEPT ![p] = [b0 |-> NewBuffer(r.b0 * ElemSize),
                                              b1 |-> NewBuffer(r.b1 * ElemSize)]]
  /\ allocLog' = [allocLog EXCEPT ![p] = @ \o <<"buffer", "buffer">>]
  /\ bufId' = [bufId EXCEPT ![p] = [b0 |-> Len(allocLog[p]) + 1,
                                    b1 |-> Len(allocLog[p]) + 2]]
  /\ relLog' = relLog
  /\ interface_' = [interface_ EXCEPT ![p] = TRUE]
  /\ pc' = [pc EXCEPT ![p] = IF outcome[p][callIdx[p]] = "none" THEN "ready" ELSE "done"]
  /\ UNCHANGED <<topo, sourceSet, destSet, ifaceBuilt, iface, flag, policy, script,
                 errBudget, callIdx, src, dst, sendReq, recvReq, waitCount, success,
                 contrib, dstAfter, srcAfter, outcome, errCalls, scatLog, arrival>>
  /\ UNCHANGED <<modeVars, seqVars, graphVars, dtVars>>

\* sendRecv, first step: the MessageGatherer fills the send buffer
\* (buffers_[0] from source in forward, buffers_[1] from dest in backward)
Gather(p) ==
  /\ pc[p] = "ready"
  /\ interface_[p]
  /\ LET fwd == IsForward(callIdx[p])
     IN buffers' = [buffers EXCEPT ![p] =
          IF fwd
          THEN [@ EXCEPT !.b0 = MessageGatherer(PeerSeq(p), iface[p], flag, policy,
                                                TRUE, src[p], @)]
          ELSE [@ EXCEPT !.b1 = MessageGatherer(PeerSeq(p), iface[p], flag, policy,
                                                FALSE, dst[p], @)]]
  /\ scatLog' = [scatLog EXCEPT ![p] = [q \in Procs |-> <<>>]]
  /\ arrival' = [arrival EXCEPT ![p] = <<>>]
  /\ pc' = [pc EXCEPT ![p] = "gathered"]
  /\ UNCHANGED <<topo, sourceSet, destSet, ifaceBuilt, iface, flag, policy, script,
                 errBudget, callIdx, src, dst, interface_, msgInfo, bufferSize,
                 sendReq, recvReq, waitCount, success, contrib, dstAfter, srcAfter,
                 outcome, errCalls>>
  /\ UNCHANGED <<heapVars, modeVars, seqVars, graphVars, dtVars>>

\* requests posted for every other rank of the group
RequestsForGroup(p) == [q \in Procs |-> IF q # p THEN "posted" ELSE "null"]

\* the requests one loop over messageInformation_ posts: one per entry of the plan
RequestsFor(p) == [q \in Procs |-> IF q \in DOMAIN msgInfo[p] THEN "posted" ELSE "null"]

\* sendRecv: MPI_Irecv for every entry of messageInformation_
PostReceives(p) ==
  /\ pc[p] = "gathered"
  /\ recvReq' = [recvReq EXCEPT ![p] = RequestsFor(p)]
  /\ pc' = [pc EXCEPT ![p] = "recvPosted"]
  /\ UNCHANGED <<topo, sourceSet, destSet, ifaceBuilt, iface, flag, policy, script,
                 errBudget, callIdx, src, dst, interface_, msgInfo, bufferSize, buffers,
                 sendReq, waitCount, success, contrib, dstAfter, srcAfter, outcome,
                 errCalls, scatLog, arrival>>
  /\ UNCHANGED <<heapVars, modeVars, seqVars, graphVars, dtVars>>

\* sendRecv: MPI_Issend for every entry of messageInformation_; then i=0, success=1
PostSends(p) ==
  /\ pc[p] = "recvPosted"
  /\ sendReq' = [sendReq EXCEPT ![p] = RequestsFor(p)]
  /\ waitCount' = [waitCount EXCEPT ![p] = 0]
  /\ success' = [success EXCEPT ![p] = 1]
  /\ pc' = [pc EXCEPT ![p] = IF DOMAIN msgInfo[p] = {} THEN "sendWait" ELSE "waitAny"]
  /\ UNCHANGED <<topo, sourceSet, destSet, ifaceBuilt, iface, flag, policy, script,
                 errBudget, callIdx, src, dst, interface_, msgInfo, bufferSize, buffers,
                 recvReq, contrib, dstAfter, srcAfter, outcome, errCalls, scatLog,
                 arrival>>
  /\ UNCHANGED <<heapVars, modeVars, seqVars, graphVars, dtVars>>


(* ------------------------------ transport ----------------------------- *)

\* a send that takes the first slab in both directions
SendSlabFirst(p, q) == msgInfo[p][q].first

\* the slab p sends to q in its running call: first/buffers_[0] in forward,
\* second/buffers_[1] in backward
SendSlab(p, q) ==
  IF IsForward(callIdx[p]) THEN msgInfo[p][q].first ELSE msgInfo[p][q].second

\* a send that always reads buffers_[0], whatever the direction of the call
SendBufferZero(p) == buffers[p].b0

\* a send that gathers from the container when the message leaves
SendBufferLive(p) ==
  LET fwd == IsForward(callIdx[p])
  IN MessageGatherer(PeerSeq(p), iface[p], flag, policy, fwd,
                     IF fwd THEN src[p] ELSE dst[p],
                     IF fwd THEN buffers[p].b0 ELSE buffers[p].b1)

SendBuffer(p) == IF IsForward(callIdx[p]) THEN buffers[p].b0 ELSE buffers[p].b1

\* the slab q receives from p into: second/buffers_[1] in forward,
\* first/buffers_[0] in backward
RecvSlab(q, p) ==
  IF IsForward(callIdx[q]) THEN msgInfo[q][p].second ELSE msgInfo[q][p].first

\* a receive buffer that is buffers_[1] whatever the direction of the call
RecvBufferOne(q) == buffers[q].b1

RecvBuffer(q) == IF IsForward(callIdx[q]) THEN buffers[q].b1 ELSE buffers[q].b0

\* a receive posted at the start of the receive buffer instead of at the slab
TransferAtBufferStart(p, q) ==
  LET n   == SendSlab(p, q).size_ \div ElemSize
      cap == RecvSlab(q, p).size_ \div ElemSize
      m   == IF n <= cap THEN n ELSE cap
      s0  == SendSlab(p, q).start_
      sb  == SendBuffer(p)
  IN [k \in DOMAIN RecvBuffer(q) |->
        IF k - 1 < m THEN ReadBuffer(sb, s0 + (k - 1)) ELSE RecvBuffer(q)[k]]

\* a receive that moves the buffer to a larger allocation and appends the message
TransferGrow(p, q) ==
  LET n  == SendSlab(p, q).size_ \div ElemSize
      s0 == SendSlab(p, q).start_
  IN RecvBuffer(q) \o [k \in 1..n |-> ReadBuffer(SendBuffer(p), s0 + (k - 1))]

\* the receive buffer of q after the message of p arrived in its slab
Transfer(p, q) ==
  LET n   == SendSlab(p, q).size_ \div ElemSize
      cap == RecvSlab(q, p).size_ \div ElemSize
      m   == IF n <= cap THEN n ELSE cap
      s0  == SendSlab(p, q).start_
      r0  == RecvSlab(q, p).start_
      sb  == SendBuffer(p)
  IN [k \in DOMAIN RecvBuffer(q) |->
        IF k - 1 >= r0 /\ k - 1 < r0 + m THEN ReadBuffer(sb, s0 + (k - 1 - r0))
        ELSE RecvBuffer(q)[k]]

\* a message longer than the receive posted for it is an error of the receive
Truncated(p, q) == SendSlab(p, q).size_ > RecvSlab(q, p).size_

\* a send that completes as soon as the transport took the message, whether or not the
\* receiver posted its receive
MatchedEager(p, q) ==
  /\ p # q
  /\ sendReq[p][q] = "posted"
  /\ p \in DOMAIN msgInfo[q]

\* a receive that is matched only after the receiver completed its own sends, as with
\* blocking synchronous sends issued before the receives
MatchedSendFirst(p, q) ==
  /\ p # q
  /\ sendReq[p][q] = "posted"
  /\ recvReq[q][p] = "posted"
  /\ \A r \in DOMAIN msgInfo[q] : sendReq[q][r] \in {"ok", "err"}

Matched(p, q) ==
  /\ p # q
  /\ sendReq[p][q] = "posted"
  /\ recvReq[q][p] = "posted"

StoreReceived(p, q) ==
  buffers' = [buffers EXCEPT ![q] =
                IF IsForward(callIdx[q]) THEN [@ EXCEPT !.b1 = Transfer(p, q)]
                ELSE [@ EXCEPT !.b0 = Transfer(p, q)]]

\* the synchronous send of p to q meets the receive q posted for p
Deliver(p, q) ==
  /\ Matched(p, q)
  /\ StoreReceived(p, q)
  /\ sendReq' = [sendReq EXCEPT ![p][q] = "ok"]
  /\ recvReq' = [recvReq EXCEPT ![q][p] = IF Truncated(p, q) THEN "err" ELSE "ok"]
  /\ errCalls' = IF Truncated(p, q) THEN errCalls \cup {callIdx[q]} ELSE errCalls
  /\ UNCHANGED <<topo, sourceSet, destSet, ifaceBuilt, iface, flag, policy, script,
                 errBudget, pc, callIdx, src, dst, interface_, msgInfo, bufferSize,
                 waitCount, success, contrib, dstAfter, srcAfter, outcome, scatLog,
                 arrival>>
  /\ UNCHANGED <<heapVars, modeVars, seqVars, graphVars, dtVars>>

\* the transport reports an error on the receive request of q
FailReceive(p, q) ==
  /\ Matched(p, q)
  /\ errBudget > 0
  /\ errBudget' = errBudget - 1
  /\ sendReq' = [sendReq EXCEPT ![p][q] = "ok"]
  /\ recvReq' = [recvReq EXCEPT ![q][p] = "err"]
  /\ errCalls' = errCalls \cup {callIdx[q]}
  /\ UNCHANGED <<topo, sourceSet, destSet, ifaceBuilt, iface, flag, policy, script,
                 pc, callIdx, src, dst, interface_, msgInfo, bufferSize, buffers,
                 waitCount, success, contrib, dstAfter, srcAfter, outcome, scatLog,
                 arrival>>
  /\ UNCHANGED <<heapVars, modeVars, seqVars, graphVars, dtVars>>

\* the transport reports an error on the send request of p; the message arrived
FailSend(p, q) ==
  /\ Matched(p, q)
  /\ errBudget > 0
  /\ errBudget' = errBudget - 1
  /\ StoreReceived(p, q)
  /\ sendReq' = [sendReq EXCEPT ![p][q] = "err"]
  /\ recvReq' = [recvReq EXCEPT ![q][p] = IF Truncated(p, q) THEN "err" ELSE "ok"]
  /\ errCalls' = errCalls \cup {callIdx[p]}
  /\ UNCHANGED <<topo, sourceSet, destSet, ifaceBuilt, iface, flag, policy, script,
                 pc, callIdx, src, dst, interface_, msgInfo, bufferSize,
                 waitCount, success, contrib, dstAfter, srcAfter, outcome, scatLog,
                 arrival>>
  /\ UNCHANGED <<heapVars, modeVars, seqVars, graphVars, dtVars>>

(* --------------------- sendRecv after the requests -------------------- *)

\* the peer whose slab is scattered when wait-any returns the request of q:
\* processMap[i] where i counts the rounds of the loop (not the returned index)
ProcessMapByRound(p, q) == PeerSeq(p)[waitCount[p] + 1]

\* the slab of another peer of the plan is scattered when wait-any returns the
\* request of q
ProcessMapOther(p, q) ==
  IF DOMAIN msgInfo[p] = {q} THEN q ELSE CHOOSE r \in DOMAIN msgInfo[p] : r # q

\* the peer whose slab is scattered when wait-any returns the request of q:
\* processMap[finished]
ProcessMapFinished(p, q) == q

\* the test of the wait-any loop with the sense reversed
StatusFailure(p, q) == recvReq[p][q] # "ok"

\* status.MPI_ERROR == MPI_SUCCESS for the receive request of q that wait-any returned
\* (the status is the one the transport reports for the request)
StatusSuccess(p, q) == recvReq[p][q] = "ok"

\* the scatter of the slab received from q (MessageScatterer on dest; in backward the
\* dest parameter of sendRecv is the source container)
ScatterFrom(p, q) ==
  LET fwd == IsForward(callIdx[p])
  IN MessageScatterer(flag, policy, ScatterSide(iface[p][q], fwd),
                      IF fwd THEN dst[p] ELSE src[p],
                      RecvBuffer(p), RecvSlab(p, q).start_)

\* one round of the wait-any loop: a completed receive is returned; its slab is
\* scattered if status.MPI_ERROR is MPI_SUCCESS, else success becomes 0
WaitAny(p) ==
  /\ pc[p] = "waitAny"
  /\ \E q \in DOMAIN msgInfo[p] :
       /\ recvReq[p][q] \in {"ok", "err"}
       /\ IF StatusSuccess(p, q)
          THEN LET proc == ProcessMapFinished(p, q)
               IN /\ IF IsForward(callIdx[p])
                     THEN /\ dst' = [dst EXCEPT ![p] = ScatterFrom(p, proc).data]
                          /\ src' = IF same THEN [src EXCEPT ![p] = dst'[p]] ELSE src
                     ELSE /\ src' = [src EXCEPT ![p] = ScatterFrom(p, proc).data]
                          /\ dst' = IF same THEN [dst EXCEPT ![p] = src'[p]] ELSE dst
                  /\ scatLog' = [scatLog EXCEPT ![p][proc] = ScatterFrom(p, proc).log]
                  /\ success' = success
          ELSE /\ success' = [success EXCEPT ![p] = 0]
               /\ UNCHANGED <<src, dst, scatLog>>
       /\ recvReq' = [recvReq EXCEPT ![p][q] =
                        IF recvReq[p][q] = "ok" THEN "doneOk" ELSE "doneErr"]
       /\ arrival' = [arrival EXCEPT ![p] = Append(@, q)]
  /\ waitCount' = [waitCount EXCEPT ![p] = @ + 1]
  /\ pc' = [pc EXCEPT ![p] =
              IF waitCount[p] + 1 >= Cardinality(DOMAIN msgInfo[p])
              THEN "sendWait" ELSE "waitAny"]
  /\ UNCHANGED <<topo, sourceSet, destSet, ifaceBuilt, iface, flag, policy, script,
                 errBudget, callIdx, interface_, msgInfo, bufferSize, buffers, sendReq,
                 contrib, dstAfter, srcAfter, outcome, errCalls>>
  /\ UNCHANGED <<heapVars, modeVars, seqVars, graphVars, dtVars>>

\* MPI_Wait on every send request, then the process enters MPI_Allreduce with
\* its success flag
WaitSends(p) ==
  /\ pc[p] = "sendWait"
  /\ \A q \in DOMAIN msgInfo[p] : sendReq[p][q] \in {"ok", "err"}
  /\ LET ok == IF \E q \in DOMAIN msgInfo[p] : sendReq[p][q] = "err" THEN 0
               ELSE success[p]
     IN /\ success' = [success EXCEPT ![p] = ok]
        /\ contrib' = [contrib EXCEPT ![callIdx[p]][p] = ok]
  /\ sendReq' = [sendReq EXCEPT ![p] = NullRequests]
  /\ pc' = [pc EXCEPT ![p] = "reduce"]
  /\ UNCHANGED <<topo, sourceSet, destSet, ifaceBuilt, iface, flag, policy, script,
                 errBudget, callIdx, src, dst, interface_, msgInfo, bufferSize, buffers,
                 recvReq, waitCount, dstAfter, srcAfter, outcome, errCalls, scatLog,
                 arrival>>
  /\ UNCHANGED <<heapVars, modeVars, seqVars, graphVars, dtVars>>

Max(S) == CHOOSE x \in S : \A y \in S : y <= x

\* a reduction with MPI_MAX
GlobalSuccessMax(k) == Max({contrib[k][q] : q \in Procs})

\* the result of MPI_Allreduce(MPI_MIN) of call k once every process entered it
GlobalSuccess(k) == Min({contrib[k][q] : q \in Procs})

\* a reduction over the peers of the plan only
AllEnteredPeers(p, k) == \A q \in DOMAIN msgInfo[p] \cup {p} : contrib[k][q] # -1

\* the all-reduce of call k can return on p: every process of
\* interface_->communicator() entered it
AllEntered(p, k) == \A q \in Procs : contrib[k][q] # -1

\* MPI_Allreduce returns on p; CommunicationError is thrown if the minimum is 0,
\* else sendRecv returns
Allreduce(p) ==
  /\ pc[p] = "reduce"
  /\ AllEntered(p, callIdx[p])
  /\ LET k == callIdx[p]
     IN /\ outcome' = [outcome EXCEPT ![p][k] =
                         IF GlobalSuccess(k) = 0 THEN "error" ELSE "ok"]
        /\ dstAfter' = [dstAfter EXCEPT ![p][k] = dst[p]]
        /\ srcAfter' = [srcAfter EXCEPT ![p][k] = src[p]]
        /\ pc' = [pc EXCEPT ![p] =
                    IF GlobalSuccess(k) = 0 THEN "failed"
                    ELSE IF k >= MaxCalls THEN "done" ELSE "ready"]
        /\ callIdx' = [callIdx EXCEPT ![p] =
                         IF GlobalSuccess(k) = 0 \/ k >= MaxCalls THEN k ELSE k + 1]
  /\ UNCHANGED <<topo, sourceSet, destSet, ifaceBuilt, iface, flag, policy, script,
                 errBudget, src, dst, interface_, msgInfo, bufferSize, buffers, sendReq,
                 recvReq, waitCount, success, contrib, errCalls, scatLog, arrival>>
  /\ UNCHANGED <<heapVars, modeVars, seqVars, graphVars, dtVars>>

(* --------------------------- specifications --------------------------- *)

Next ==
  \/ \E p \in Procs : BuildInterface(p)
  \/ \E p \in Procs : Build(p)
  \/ \E p \in Procs : Gather(p)
  \/ \E p \in Procs : PostReceives(p)
  \/ \E p \in Procs : PostSends(p)
  \/ \E p, q \in Procs : Deliver(p, q)
  \/ \E p, q \in Procs : FailReceive(p, q)
  \/ \E p, q \in Procs : FailSend(p, q)
  \/ \E p \in Procs : WaitAny(p)
  \/ \E p \in Procs : WaitSends(p)
  \/ \E p \in Procs : Allreduce(p)

Spec == Init /\ [][Next]_vars

NextIface == \E p \in Procs : BuildInterface(p)

SpecIface == InitIface /\ [][NextIface]_vars


\* the exchanges on a transport that reports no error, with every process running on
\* and every matched message eventually delivered
InitLive ==
  /\ \E sc \in Scenarios :
       /\ topo = sc.t
       /\ sourceSet = sc.S
       /\ destSet = sc.D
  /\ flag = "SizeOne"
  /\ policy = "Copy"
  /\ script \in Scripts
  /\ errBudget = 0
  /\ rebuildAt = 0
  /\ same = FALSE
  /\ InitCommon(topo, flag, policy)
  /\ SeqIdle
  /\ GraphIdle

\* the steps of process p
Step(p) ==
  \/ BuildInterface(p)
  \/ Build(p)
  \/ Gather(p)
  \/ PostReceives(p)
  \/ PostSends(p)
  \/ WaitAny(p)
  \/ WaitSends(p)
  \/ Allreduce(p)

NextLive ==
  \/ \E p \in Procs : Step(p)
  \/ \E p, q \in Procs : Deliver(p, q)

\* as long as a process can take a step or a matched message can be delivered,
\* something happens: the processes run and the transport delivers
SpecLive == InitLive /\ [][NextLive]_vars /\ WF_vars(NextLive)

(* ------------------------ DatatypeCommunicator ------------------------ *)

\* the processes of the RemoteIndices table of p, in map order
DtPeerSeq(p) == SortedSeq(RemotePeers(topo, p))

\* first element (0-based) of the entry at a position of a container laid out
\* contiguously
FirstElement(fl, data, pos) ==
  SumSeq([i \in 1..pos |-> getSize(fl, data, i - 1)])

\* CommPolicy<V>::getAddress(data, i) relative to getAddress(data, 0), in bytes
Displacement(fl, data, pos) == FirstElement(fl, data, pos) * ElemSize

\* the size the InterfaceBuilder passes to MPIDatatypeInformation::reserve for peer q:
\* the number of positions it is going to add
ReservedSize(list) == Len(list)

\* displacements taken from the position instead of the address of the entry
TypeBlocksByPosition(fl, data, list) ==
  [k \in 1..Len(list) |-> [displ  |-> list[k] * ElemSize,
                           length |-> getSize(fl, data, list[k])]]

\* MPIDatatypeInformation::add for every position the InterfaceBuilder selects:
\* displ[k] - base and length[k]
TypeBlocks(fl, data, list) ==
  [k \in 1..Len(list) |-> [displ  |-> Displacement(fl, data, list[k]),
                           length |-> getSize(fl, data, list[k])]]

\* the positions buildInterface<T1, T2, ., send> adds for peer q
SelectedList(p, q, send) ==
  IF send THEN SendList(topo, p, q, sourceSet, destSet)
  ELSE ReceiveList(topo, p, q, sourceSet, destSet)

\* the ids DatatypeCommunicator::free releases, in order
FreeReleases(p) ==
  IF created_[p]
  THEN <<requests_[p].r0, requests_[p].r1>>
       \o [k \in 1..(2 * Len(SortedSeq(DOMAIN messageTypes[p]))) |->
             LET q == SortedSeq(DOMAIN messageTypes[p])[(k + 1) \div 2]
             IN IF k % 2 = 1 THEN messageTypes[p][q].first.id
                ELSE messageTypes[p][q].second.id]
  ELSE <<>>

\* messageTypes after createDataTypes<., ., ., false> and <., ., ., true>: one entry
\* per process of the RemoteIndices table; base is the number of allocations so far
CreateDataTypes(p, base) ==
  LET peers == DtPeerSeq(p)
      n     == Len(peers)
      rank  == [q \in RemotePeers(topo, p) |-> CHOOSE k \in 1..n : peers[k] = q]
  IN [q \in RemotePeers(topo, p) |->
        [first  |-> [id     |-> base + n + rank[q],
                     size   |-> ReservedSize(SelectedList(p, q, TRUE)),
                     blocks |-> TypeBlocks(flag, src[p], SelectedList(p, q, TRUE))],
         second |-> [id     |-> base + rank[q],
                     size   |-> ReservedSize(SelectedList(p, q, FALSE)),
                     blocks |-> TypeBlocks(flag, dst[p], SelectedList(p, q, FALSE))]]]

\* createRequests<V, true> and <V, false>: a receive and a send request per entry of
\* messageTypes, for forward (1) and for backward (0)
CreateRequests(types) ==
  [d \in {0, 1} |-> [q \in Procs |->
     IF q \in DOMAIN types THEN [recv |-> "inactive", send |-> "inactive"]
     ELSE [recv |-> "null", send |-> "null"]]]

\* calls p returned from
CompletedCalls(p) ==
  IF outcome[p][callIdx[p]] = "none" THEN callIdx[p] - 1 ELSE callIdx[p]

\* number of times p built its DatatypeCommunicator
DtBuilds(p) ==
  Cardinality({i \in DOMAIN allocLog[p] : allocLog[p][i] = "requests"}) \div 2

\* DatatypeCommunicator::build
DtBuild(p) ==
  /\ \/ pc[p] = "idle"
     \/ pc[p] = "dtFreed" /\ DtBuilds(p) < 2
  /\ LET n     == Len(DtPeerSeq(p))
         base  == Len(allocLog[p])
         types == CreateDataTypes(p, base)
     IN /\ relLog' = [relLog EXCEPT ![p] = @ \o FreeReleases(p)]
        /\ messageTypes' = [messageTypes EXCEPT ![p] = types]
        /\ allocLog' = [allocLog EXCEPT ![p] =
              @ \o [k \in 1..(2 * n) |-> "type"] \o <<"requests", "requests">>]
        /\ requests_' = [requests_ EXCEPT ![p] = [r1 |-> base + 2 * n + 1,
                                                  r0 |-> base + 2 * n + 2]]
        /\ dtReq' = [dtReq EXCEPT ![p] = CreateRequests(types)]
  /\ created_' = [created_ EXCEPT ![p] = TRUE]
  /\ pc' = [pc EXCEPT ![p] = IF outcome[p][callIdx[p]] = "none" THEN "dtReady"
                             ELSE "dtDone"]
  /\ UNCHANGED <<topo, sourceSet, destSet, ifaceBuilt, iface, flag, policy, script,
                 errBudget, callIdx, src, dst, interface_, msgInfo, bufferSize, buffers,
                 sendReq, recvReq, waitCount, success, contrib, dstAfter, srcAfter,
                 outcome, errCalls, scatLog, arrival, bufId, modeVars, seqVars, graphVars>>

\* what DatatypeCommunicator::free leaves: created_ and requests_ keep their values
DtFreeEffect(p) ==
  /\ relLog' = [relLog EXCEPT ![p] = @ \o FreeReleases(p)]
  /\ messageTypes' = [messageTypes EXCEPT ![p] =
                        IF created_[p] THEN <<>> ELSE messageTypes[p]]
  /\ UNCHANGED <<created_, requests_, allocLog>>

\* DatatypeCommunicator::free, called by the user after call number rebuildAt
DtFree(p) ==
  /\ pc[p] \in {"dtReady", "dtDone"}
  /\ rebuildAt > 0 /\ CompletedCalls(p) = rebuildAt /\ DtBuilds(p) = 1
  /\ DtFreeEffect(p)
  /\ dtReq' = [dtReq EXCEPT ![p] = NullDtRequests]
  /\ pc' = [pc EXCEPT ![p] = "dtFreed"]
  /\ UNCHANGED <<topo, sourceSet, destSet, ifaceBuilt, iface, flag, policy, script,
                 errBudget, callIdx, src, dst, interface_, msgInfo, bufferSize, buffers,
                 sendReq, recvReq, waitCount, success, contrib, dstAfter, srcAfter,
                 outcome, errCalls, scatLog, arrival, bufId, modeVars, seqVars, graphVars>>

\* DatatypeCommunicator::~DatatypeCommunicator, once the calls are made
DtDestroy(p) ==
  /\ \/ pc[p] = "dtDone"
     \/ pc[p] = "dtFreed" /\ CompletedCalls(p) = MaxCalls
  /\ DtFreeEffect(p)
  /\ dtReq' = [dtReq EXCEPT ![p] = NullDtRequests]
  /\ pc' = [pc EXCEPT ![p] = "dtDestroyed"]
  /\ UNCHANGED <<topo, sourceSet, destSet, ifaceBuilt, iface, flag, policy, script,
                 errBudget, callIdx, src, dst, interface_, msgInfo, bufferSize, buffers,
                 sendReq, recvReq, waitCount, success, contrib, dstAfter, srcAfter,
                 outcome, errCalls, scatLog, arrival, bufId, modeVars, seqVars, graphVars>>

\* the request set sendRecv is given: requests_[1] in forward, requests_[0] in backward
Direction(p) == IF IsForward(callIdx[p]) THEN 1 ELSE 0

\* the elements (0-based, in the container) a descriptor covers, in order
RECURSIVE TypeElements(_)
TypeElements(blocks) ==
  IF blocks = <<>> THEN <<>>
  ELSE [j \in 1..Head(blocks).length |-> Head(blocks).displ \div ElemSize + j - 1]
       \o TypeElements(Tail(blocks))

\* the position of a container that holds element e
PositionOfElement(fl, data, e) ==
  CHOOSE pos \in DOMAIN data :
    /\ FirstElement(fl, data, pos) <= e
    /\ e < FirstElement(fl, data, pos) + getSize(fl, data, pos)

ReadElement(fl, data, e) ==
  IF fl = "SizeOne" THEN data[e]
  ELSE LET pos == PositionOfElement(fl, data, e)
       IN data[pos][e - FirstElement(fl, data, pos) + 1]

WriteElement(fl, data, e, v) ==
  IF fl = "SizeOne" THEN [data EXCEPT ![e] = v]
  ELSE LET pos == PositionOfElement(fl, data, e)
       IN [data EXCEPT ![pos][e - FirstElement(fl, data, pos) + 1] = v]

\* the receiving container after the transport unpacked the elements of the message
RECURSIVE Unpack(_, _, _, _)
Unpack(fl, data, elems, values) ==
  IF elems = <<>> \/ values = <<>> THEN data
  ELSE Unpack(fl, WriteElement(fl, data, Head(elems), Head(values)),
              Tail(elems), Tail(values))

\* send requests that use the send descriptor in both directions
SendTypeFirst(p, q) == messageTypes[p][q].first

\* the descriptor and the container of the send request of p for q
SendType(p, q) ==
  IF Direction(p) = 1 THEN messageTypes[p][q].first ELSE messageTypes[p][q].second

SendData(p) == IF Direction(p) = 1 THEN src[p] ELSE dst[p]

\* the descriptor and the container of the receive request of q for p
RecvType(q, p) ==
  IF Direction(q) = 1 THEN messageTypes[q][p].second ELSE messageTypes[q][p].first

RecvData(q) == IF Direction(q) = 1 THEN dst[q] ELSE src[q]

\* the elements the message of p to q carries, read through the send descriptor
Packed(p, q) ==
  LET elems == TypeElements(SendType(p, q).blocks)
  IN [k \in 1..Len(elems) |-> ReadElement(flag, SendData(p), elems[k])]

\* sendRecv: MPI_Startall on the receive requests
DtStartReceives(p) ==
  /\ pc[p] = "dtReady"
  /\ dtReq' = [dtReq EXCEPT ![p][Direction(p)] =
       [q \in Procs |-> IF @[q].recv = "inactive" THEN [@[q] EXCEPT !.recv = "started"]
                        ELSE @[q]]]
  /\ pc' = [pc EXCEPT ![p] = "dtRecvStarted"]
  /\ UNCHANGED <<topo, sourceSet, destSet, ifaceBuilt, iface, flag, policy, script,
                 errBudget, callIdx, src, dst, interface_, msgInfo, bufferSize, buffers,
                 sendReq, recvReq, waitCount, success, contrib, dstAfter, srcAfter,
                 outcome, errCalls, scatLog, arrival, heapVars, modeVars, seqVars, graphVars,
                 created_, requests_, messageTypes>>

\* sendRecv: MPI_Startall on the send requests
DtStartSends(p) ==
  /\ pc[p] = "dtRecvStarted"
  /\ dtReq' = [dtReq EXCEPT ![p][Direction(p)] =
       [q \in Procs |-> IF @[q].send = "inactive" THEN [@[q] EXCEPT !.send = "started"]
                        ELSE @[q]]]
  /\ pc' = [pc EXCEPT ![p] = "dtSendStarted"]
  /\ UNCHANGED <<topo, sourceSet, destSet, ifaceBuilt, iface, flag, policy, script,
                 errBudget, callIdx, src, dst, interface_, msgInfo, bufferSize, buffers,
                 sendReq, recvReq, waitCount, success, contrib, dstAfter, srcAfter,
                 outcome, errCalls, scatLog, arrival, heapVars, modeVars, seqVars, graphVars,
                 created_, requests_, messageTypes>>

\* the synchronous send of p to q meets the started receive of q for p: the elements
\* go from the container of p into the container of q
DtDeliver(p, q) ==
  /\ p # q
  /\ dtReq[p][Direction(p)][q].send = "started"
  /\ dtReq[q][Direction(q)][p].recv = "started"
  /\ LET data == Unpack(flag, RecvData(q), TypeElements(RecvType(q, p).blocks),
                        Packed(p, q))
     IN IF Direction(q) = 1
        THEN dst' = [dst EXCEPT ![q] = data] /\ src' = src
        ELSE src' = [src EXCEPT ![q] = data] /\ dst' = dst
  /\ dtReq' = [dtReq EXCEPT ![p][Direction(p)][q].send = "ok",
                            ![q][Direction(q)][p].recv = "ok"]
  /\ UNCHANGED <<topo, sourceSet, destSet, ifaceBuilt, iface, flag, policy, script,
                 errBudget, pc, callIdx, interface_, msgInfo, bufferSize, buffers,
                 sendReq, recvReq, waitCount, success, contrib, dstAfter, srcAfter,
                 outcome, errCalls, scatLog, arrival, heapVars, modeVars, seqVars, graphVars,
                 created_, requests_, messageTypes>>

\* the transport reports an error on the receive request of q for p
DtFailReceive(p, q) ==
  /\ p # q
  /\ dtReq[p][Direction(p)][q].send = "started"
  /\ dtReq[q][Direction(q)][p].recv = "started"
  /\ errBudget > 0
  /\ errBudget' = errBudget - 1
  /\ dtReq' = [dtReq EXCEPT ![p][Direction(p)][q].send = "ok",
                            ![q][Direction(q)][p].recv = "err"]
  /\ errCalls' = errCalls \cup {callIdx[q]}
  /\ UNCHANGED <<topo, sourceSet, destSet, ifaceBuilt, iface, flag, policy, script,
                 pc, callIdx, src, dst, interface_, msgInfo, bufferSize, buffers,
                 sendReq, recvReq, waitCount, success, contrib, dstAfter, srcAfter,
                 outcome, scatLog, arrival, heapVars, modeVars, seqVars, graphVars,
                 created_, requests_, messageTypes>>

\* the transport reports an error on the send request of p for q; the message arrived
DtFailSend(p, q) ==
  /\ p # q
  /\ dtReq[p][Direction(p)][q].send = "started"
  /\ dtReq[q][Direction(q)][p].recv = "started"
  /\ errBudget > 0
  /\ errBudget' = errBudget - 1
  /\ LET data == Unpack(flag, RecvData(q), TypeElements(RecvType(q, p).blocks),
                        Packed(p, q))
     IN IF Direction(q) = 1
        THEN dst' = [dst EXCEPT ![q] = data] /\ src' = src
        ELSE src' = [src EXCEPT ![q] = data] /\ dst' = dst
  /\ dtReq' = [dtReq EXCEPT ![p][Direction(p)][q].send = "err",
                            ![q][Direction(q)][p].recv = "ok"]
  /\ errCalls' = errCalls \cup {callIdx[p]}
  /\ UNCHANGED <<topo, sourceSet, destSet, ifaceBuilt, iface, flag, policy, script,
                 pc, callIdx, interface_, msgInfo, bufferSize, buffers,
                 sendReq, recvReq, waitCount, success, contrib, dstAfter, srcAfter,
                 outcome, scatLog, arrival, heapVars, modeVars, seqVars, graphVars,
                 created_, requests_, messageTypes>>

\* error checks that look at the sends only
DtSuccessSendOnly(p) ==
  IF \E q \in Procs : dtReq[p][Direction(p)][q].send = "err" THEN 0 ELSE 1

\* sendRecv, the error checks: success is 0 if MPI_Waitall returned
\* MPI_ERR_IN_STATUS for the sends or for the receives
DtSuccess(p) ==
  IF \E q \in Procs : \/ dtReq[p][Direction(p)][q].send = "err"
                       \/ dtReq[p][Direction(p)][q].recv = "err"
  THEN 0 ELSE 1

\* sendRecv: MPI_Waitall on the send requests
DtWaitSends(p) ==
  /\ pc[p] = "dtSendStarted"
  /\ \A q \in Procs : dtReq[p][Direction(p)][q].send \in {"null", "ok", "err"}
  /\ pc' = [pc EXCEPT ![p] = "dtSendsDone"]
  /\ UNCHANGED <<topo, sourceSet, destSet, ifaceBuilt, iface, flag, policy, script,
                 errBudget, callIdx, src, dst, interface_, msgInfo, bufferSize, buffers,
                 sendReq, recvReq, waitCount, success, contrib, dstAfter, srcAfter,
                 outcome, errCalls, scatLog, arrival, heapVars, modeVars, seqVars, graphVars, dtVars>>

\* sendRecv: MPI_Waitall on the receive requests, the error checks, and the process
\* enters MPI_Allreduce with its success flag; the requests are inactive again
DtWaitReceives(p) ==
  /\ pc[p] = "dtSendsDone"
  /\ \A q \in Procs : dtReq[p][Direction(p)][q].recv \in {"null", "ok", "err"}
  /\ success' = [success EXCEPT ![p] = DtSuccess(p)]
  /\ contrib' = [contrib EXCEPT ![callIdx[p]][p] = DtSuccess(p)]
  /\ dtReq' = [dtReq EXCEPT ![p][Direction(p)] =
       [q \in Procs |-> IF @[q].recv = "null" THEN @[q]
                        ELSE [recv |-> "inactive", send |-> "inactive"]]]
  /\ pc' = [pc EXCEPT ![p] = "dtReduce"]
  /\ UNCHANGED <<topo, sourceSet, destSet, ifaceBuilt, iface, flag, policy, script,
                 errBudget, callIdx, src, dst, interface_, msgInfo, bufferSize, buffers,
                 sendReq, recvReq, waitCount, dstAfter, srcAfter,
                 outcome, errCalls, scatLog, arrival, heapVars, modeVars, seqVars, graphVars,
                 created_, requests_, messageTypes>>

\* sendRecv: MPI_Allreduce over remoteIndices_->communicator() returns;
\* CommunicationError is thrown if the minimum is 0
DtAllreduce(p) ==
  /\ pc[p] = "dtReduce"
  /\ AllEntered(p, callIdx[p])
  /\ LET k == callIdx[p]
     IN /\ outcome' = [outcome EXCEPT ![p][k] =
                         IF GlobalSuccess(k) = 0 THEN "error" ELSE "ok"]
        /\ dstAfter' = [dstAfter EXCEPT ![p][k] = dst[p]]
        /\ srcAfter' = [srcAfter EXCEPT ![p][k] = src[p]]
        /\ pc' = [pc EXCEPT ![p] =
                    IF GlobalSuccess(k) = 0 THEN "failed"
                    ELSE IF k >= MaxCalls THEN "dtDone" ELSE "dtReady"]
        /\ callIdx' = [callIdx EXCEPT ![p] =
                         IF GlobalSuccess(k) = 0 \/ k >= MaxCalls THEN k ELSE k + 1]
  /\ UNCHANGED <<topo, sourceSet, destSet, ifaceBuilt, iface, flag, policy, script,
                 errBudget, src, dst, interface_, msgInfo, bufferSize, buffers, sendReq,
                 recvReq, waitCount, success, contrib, errCalls, scatLog, arrival,
                 heapVars, modeVars, seqVars, graphVars, dtVars>>

\* the DatatypeCommunicator on every scenario: build, forward/backward calls, free and
\* build again after call number rebuildAt, destruction
InitDatatype ==
  /\ \E sc \in Scenarios :
       /\ topo = sc.t
       /\ sourceSet = sc.S
       /\ destSet = sc.D
  /\ flag \in {"SizeOne", "VariableSize"}
  /\ policy = "Copy"
  /\ script \in Scripts
  /\ errBudget = 0
  /\ rebuildAt \in 0..MaxCalls
  /\ same = FALSE
  /\ InitCommon(topo, flag, policy)
  /\ SeqIdle
  /\ GraphIdle

NextDatatype ==
  \/ \E p \in Procs : BuildInterface(p)
  \/ \E p \in Procs : DtBuild(p)
  \/ \E p \in Procs : DtFree(p)
  \/ \E p \in Procs : DtDestroy(p)
  \/ \E p \in Procs : DtStartReceives(p)
  \/ \E p \in Procs : DtStartSends(p)
  \/ \E p, q \in Procs : DtDeliver(p, q)
  \/ \E p \in Procs : DtWaitSends(p)
  \/ \E p \in Procs : DtWaitReceives(p)
  \/ \E p \in Procs : DtAllreduce(p)

SpecDatatype == InitDatatype /\ [][NextDatatype]_vars

\* the DatatypeCommunicator with transport errors
InitDatatypeErrors ==
  /\ \E sc \in Scenarios :
       /\ topo = sc.t
       /\ sourceSet = sc.S
       /\ destSet = sc.D
  /\ flag = "SizeOne"
  /\ policy = "Copy"
  /\ script \in Scripts
  /\ errBudget = MaxErrors
  /\ rebuildAt = 0
  /\ same = FALSE
  /\ InitCommon(topo, flag, policy)
  /\ SeqIdle
  /\ GraphIdle

NextDatatypeErrors ==
  \/ \E p \in Procs : BuildInterface(p)
  \/ \E p \in Procs : DtBuild(p)
  \/ \E p \in Procs : DtDestroy(p)
  \/ \E p \in Procs : DtStartReceives(p)
  \/ \E p \in Procs : DtStartSends(p)
  \/ \E p, q \in Procs : DtDeliver(p, q)
  \/ \E p, q \in Procs : DtFailReceive(p, q)
  \/ \E p, q \in Procs : DtFailSend(p, q)
  \/ \E p \in Procs : DtWaitSends(p)
  \/ \E p \in Procs : DtWaitReceives(p)
  \/ \E p \in Procs : DtAllreduce(p)

SpecDatatypeErrors == InitDatatypeErrors /\ [][NextDatatypeErrors]_vars

(* ------------------ re-use of a BufferedCommunicator ------------------ *)

\* a clear() that leaves the entries in the map
ClearMapKeep(m) == m

\* messageInformation_.clear()
ClearMap(m) == <<>>

\* number of times p built its BufferedCommunicator
Builds(p) ==
  Cardinality({i \in DOMAIN allocLog[p] : allocLog[p][i] = "buffer"}) \div 2

\* the caller frees the communicator after call number rebuildAt of the first build
DueForFree(p) ==
  rebuildAt > 0 /\ CompletedCalls(p) = rebuildAt /\ Builds(p) = 1

\* BufferedCommunicator::free: the buffers_ pointers keep their values
Free(p) ==
  /\ pc[p] \in {"ready", "done"}
  /\ DueForFree(p)
  /\ IF interface_[p]
     THEN /\ msgInfo' = [msgInfo EXCEPT ![p] = ClearMap(@)]
          /\ relLog' = [relLog EXCEPT ![p] = @ \o <<bufId[p].b0, bufId[p].b1>>]
          /\ interface_' = [interface_ EXCEPT ![p] = FALSE]
     ELSE UNCHANGED <<msgInfo, relLog, interface_>>
  /\ pc' = [pc EXCEPT ![p] = "freed"]
  /\ UNCHANGED <<topo, sourceSet, destSet, ifaceBuilt, iface, flag, policy, script,
                 errBudget, callIdx, src, dst, bufferSize, buffers, sendReq, recvReq,
                 waitCount, success, contrib, dstAfter, srcAfter, outcome, errCalls,
                 scatLog, arrival, bufId, allocLog, modeVars, seqVars, graphVars, dtVars>>

\* the different Interface of the second build: the predicates exchanged
SecondInterface(p) == InterfaceOf(topo, p, destSet, sourceSet)

\* Interface::build on process p for the second build
BuildSecondInterface(p) ==
  /\ pc[p] = "freed"
  /\ iface' = [iface EXCEPT ![p] = SecondInterface(p)]
  /\ pc' = [pc EXCEPT ![p] = "idle"]
  /\ UNCHANGED <<topo, sourceSet, destSet, ifaceBuilt, flag, policy, script, errBudget,
                 callIdx, src, dst, interface_, msgInfo, bufferSize, buffers, sendReq,
                 recvReq, waitCount, success, contrib, dstAfter, srcAfter, outcome,
                 errCalls, scatLog, arrival, heapVars, modeVars, seqVars, graphVars, dtVars>>

\* build, rebuildAt calls, free, build on the second Interface, the remaining calls
InitReuse ==
  /\ \E sc \in Scenarios :
       /\ topo = sc.t
       /\ sourceSet = sc.S
       /\ destSet = sc.D
  /\ flag \in {"SizeOne", "VariableSize"}
  /\ policy = "Copy"
  /\ script \in Scripts
  /\ errBudget = 0
  /\ rebuildAt \in 1..MaxCalls
  /\ same = FALSE
  /\ InitCommon(topo, flag, policy)
  /\ SeqIdle
  /\ GraphIdle

NextReuse ==
  \/ \E p \in Procs : BuildInterface(p)
  \/ \E p \in Procs : Build(p)
  \/ \E p \in Procs : Free(p)
  \/ \E p \in Procs : BuildSecondInterface(p)
  \/ \E p \in Procs : ~DueForFree(p) /\ Gather(p)
  \/ \E p \in Procs : PostReceives(p)
  \/ \E p \in Procs : PostSends(p)
  \/ \E p, q \in Procs : Deliver(p, q)
  \/ \E p \in Procs : WaitAny(p)
  \/ \E p \in Procs : WaitSends(p)
  \/ \E p \in Procs : Allreduce(p)

SpecReuse == InitReuse /\ [][NextReuse]_vars

(* ------------------ a peer omitted on one side ------------------------ *)

\* Interface::build on process p where the entry of peer q is left out
\* (q = p: nothing is left out)
BuildInterfaceOmitting(p, q) ==
  /\ pc[p] = "start"
  /\ LET full == InterfaceOf(topo, p, sourceSet, destSet)
     IN iface' = [iface EXCEPT ![p] = [r \in DOMAIN full \ {q} |-> full[r]]]
  /\ ifaceBuilt' = ifaceBuilt \cup {p}
  /\ pc' = [pc EXCEPT ![p] = "idle"]
  /\ UNCHANGED <<topo, sourceSet, destSet, flag, policy, script, errBudget, callIdx,
                 src, dst, interface_, msgInfo, bufferSize, buffers, sendReq, recvReq,
                 waitCount, success, contrib, dstAfter, srcAfter, outcome, errCalls,
                 scatLog, arrival, heapVars, modeVars, seqVars, graphVars, dtVars>>

\* every process builds, possibly with one peer omitted, and makes its calls
InitOneSided ==
  /\ \E sc \in Scenarios :
       /\ topo = sc.t
       /\ sourceSet = sc.S
       /\ destSet = sc.D
  /\ flag = "SizeOne"
  /\ policy = "Copy"
  /\ script \in Scripts
  /\ errBudget = 0
  /\ rebuildAt = 0
  /\ same = FALSE
  /\ InitCommon(topo, flag, policy)
  /\ SeqIdle
  /\ GraphIdle

NextOneSided ==
  \/ \E p, q \in Procs : BuildInterfaceOmitting(p, q)
  \/ \E p \in Procs : Build(p)
  \/ \E p \in Procs : Gather(p)
  \/ \E p \in Procs : PostReceives(p)
  \/ \E p \in Procs : PostSends(p)
  \/ \E p, q \in Procs : Deliver(p, q)
  \/ \E p \in Procs : WaitAny(p)
  \/ \E p \in Procs : WaitSends(p)
  \/ \E p \in Procs : Allreduce(p)

SpecOneSided == InitOneSided /\ [][NextOneSided]_vars

(* ------------- processes of the group outside every Interface --------- *)

\* processes that occur in some Interface: they have a peer or are the peer of one
Occurring == {p \in Procs : Peers(p) # {} \/ \E q \in Procs : p \in Peers(q)}

\* processes of the group that built their Interface and occur in none
Absent == ifaceBuilt \ Occurring

\* every process builds; the processes that occur in some Interface make their calls,
\* the others never call forward or backward
InitSubset ==
  /\ \E sc \in Scenarios :
       /\ topo = sc.t
       /\ sourceSet = sc.S
       /\ destSet = sc.D
  /\ flag = "SizeOne"
  /\ policy = "Copy"
  /\ script \in Scripts
  /\ errBudget = 0
  /\ rebuildAt = 0
  /\ same = FALSE
  /\ InitCommon(topo, flag, policy)
  /\ SeqIdle
  /\ GraphIdle

NextSubset ==
  \/ \E p \in Procs : BuildInterface(p)
  \/ \E p \in Procs : Build(p)
  \/ \E p \in Occurring : Gather(p)
  \/ \E p \in Procs : PostReceives(p)
  \/ \E p \in Procs : PostSends(p)
  \/ \E p, q \in Procs : Deliver(p, q)
  \/ \E p \in Procs : WaitAny(p)
  \/ \E p \in Procs : WaitSends(p)
  \/ \E p \in Procs : Allreduce(p)

\* a process that can take a step eventually takes one: every call of the transport
\* that can complete does complete
SpecSubset == InitSubset /\ [][NextSubset]_vars /\ WF_vars(NextSubset)

(* ----------------- forward(data) and backward(data) ------------------- *)

\* topologies and predicates of the one-container calls: with the same attributes on
\* both sides every shared index is in the send and in the receive list of its peer
SameScenarios ==
  { [t |-> TopoTwoRank, S |-> {"owner", "copy"}, D |-> {"owner", "copy"}],
    [t |-> TopoStar,    S |-> {"owner", "copy"}, D |-> {"owner", "copy"}],
    [t |-> TopoTwoRank, S |-> {"owner"},         D |-> {"copy"}] }

\* forward(data) / backward(data): sendRecv(data, data), source and dest are one
\* container
InitSame ==
  /\ \E sc \in SameScenarios :
       /\ topo = sc.t
       /\ sourceSet = sc.S
       /\ destSet = sc.D
  /\ flag \in {"SizeOne", "VariableSize"}
  /\ policy \in {"Copy", "Sum"}
  /\ script \in Scripts
  /\ errBudget = 0
  /\ rebuildAt = 0
  /\ same = TRUE
  /\ InitCommon(topo, flag, policy)
  /\ SeqIdle
  /\ GraphIdle

NextSame ==
  \/ \E p \in Procs : BuildInterface(p)
  \/ \E p \in Procs : Build(p)
  \/ \E p \in Procs : Gather(p)
  \/ \E p \in Procs : PostReceives(p)
  \/ \E p \in Procs : PostSends(p)
  \/ \E p, q \in Procs : Deliver(p, q)
  \/ \E p \in Procs : WaitAny(p)
  \/ \E p \in Procs : WaitSends(p)
  \/ \E p \in Procs : Allreduce(p)

SpecSame == InitSame /\ [][NextSame]_vars

(* ------------------------- vocabulary of the claims ------------------- *)

(* ----------------------- SequentialInformation ------------------------ *)

\* the variables of the communicators
commVars == <<topo, sourceSet, destSet, ifaceBuilt, iface, flag, policy, script,
              errBudget, pc, callIdx, src, dst, interface_, msgInfo, bufferSize,
              buffers, sendReq, recvReq, waitCount, success, contrib, dstAfter,
              srcAfter, outcome, errCalls, scatLog, arrival, heapVars, modeVars, dtVars>>

\* no communicator in use
CommIdle ==
  /\ topo = TopoTwoRank
  /\ sourceSet = {"owner"}
  /\ destSet = {"copy"}
  /\ flag = "SizeOne"
  /\ policy = "Copy"
  /\ script = [k \in Calls |-> "F"]
  /\ errBudget = 0
  /\ rebuildAt = 0
  /\ same = FALSE
  /\ InitCommon(topo, flag, policy)

\* values of the arguments and of the member the constructors leave uninitialised
SeqValues == 0..MaxCount

\* the vectors of the caller
SeqVectors == [1..MaxGlobal -> {0, 1}]

\* SequentialInformation::procs
procs == 1

\* a sum over two processes that hold the same value
globalSumOfTwo(t) == t + t

\* SequentialInformation::globalSum
globalSum(t) == t

\* SequentialInformation::copyOwnerToAll(v, v1): the vectors after the call
copyOwnerToAll(a, b) == [v |-> a, v1 |-> b]

\* SequentialInformation::project(v): the vector after the call
project(a) == a

\* SequentialInformation::buildGlobalLookup(n): the member gli after the call
buildGlobalLookup(g, n) == g

\* SequentialInformation::freeGlobalLookup(): the member gli after the call
freeGlobalLookup(g) == g

\* the constructors initialise no member: gli holds any value
InitSequential ==
  /\ CommIdle
  /\ GraphIdle
  /\ gli \in SeqValues
  /\ seqV \in SeqVectors
  /\ seqV1 \in SeqVectors
  /\ seqIn = [gli |-> gli, v |-> seqV, v1 |-> seqV1]
  /\ ret = [op |-> "none", arg |-> 0, val |-> 0]

SeqProcs ==
  /\ ret' = [op |-> "procs", arg |-> 0, val |-> procs]
  /\ UNCHANGED <<gli, seqV, seqV1, seqIn, commVars, graphVars>>

SeqGlobalSum ==
  /\ \E t \in SeqValues : ret' = [op |-> "globalSum", arg |-> t, val |-> globalSum(t)]
  /\ UNCHANGED <<gli, seqV, seqV1, seqIn, commVars, graphVars>>

SeqCopyOwnerToAll ==
  /\ seqV' = copyOwnerToAll(seqV, seqV1).v
  /\ seqV1' = copyOwnerToAll(seqV, seqV1).v1
  /\ ret' = [op |-> "copyOwnerToAll", arg |-> 0, val |-> 0]
  /\ UNCHANGED <<gli, seqIn, commVars, graphVars>>

SeqProject ==
  /\ seqV' = project(seqV)
  /\ ret' = [op |-> "project", arg |-> 0, val |-> 0]
  /\ UNCHANGED <<gli, seqV1, seqIn, commVars, graphVars>>

SeqBuildGlobalLookup ==
  /\ \E n \in SeqValues :
       /\ gli' = buildGlobalLookup(gli, n)
       /\ ret' = [op |-> "buildGlobalLookup", arg |-> n, val |-> 0]
  /\ UNCHANGED <<seqV, seqV1, seqIn, commVars, graphVars>>

SeqFreeGlobalLookup ==
  /\ gli' = freeGlobalLookup(gli)
  /\ ret' = [op |-> "freeGlobalLookup", arg |-> 0, val |-> 0]
  /\ UNCHANGED <<seqV, seqV1, seqIn, commVars, graphVars>>

NextSequential ==
  \/ SeqProcs
  \/ SeqGlobalSum
  \/ SeqCopyOwnerToAll
  \/ SeqProject
  \/ SeqBuildGlobalLookup
  \/ SeqFreeGlobalLookup

SpecSequential == InitSequential /\ [][NextSequential]_vars

(* ---------------------- PropertiesGraphCreator ------------------------ *)

\* local positions of the matrix rows: excluded has one flag per row
Rows == 0..(MaxCount - 1)

\* the parallel index sets of the caller, in iteration order (ascending global
\* index): every row has at most one index, the local positions ascend or descend
\* with the global index
GraphIndexSets ==
  UNION {{[k \in 1..Len(ord) |-> [local |-> ord[k], attribute |-> asg[ord[k]]]] :
            ord \in {SortedSeq({r \in Rows : asg[r] # "none"}),
                     Reverse(SortedSeq({r \in Rows : asg[r] # "none"}))}} :
         asg \in [Rows -> Attrs \cup {"none"}]}

\* OF::contains
contains(flags, a) == a \in flags

\* a loop that clears the flags of the rows that have no index
MarkExcludedCleared(idx, flags, exc) ==
  [p \in DOMAIN exc |->
     \E k \in 1..Len(idx) : idx[k].local + 1 = p /\ contains(flags, idx[k].attribute)]

\* the loop of create over the index set:
\* excluded[index->local()] = of.contains(index->local().attribute())
RECURSIVE MarkExcluded(_, _, _)
MarkExcluded(idx, flags, exc) ==
  IF idx = <<>> THEN exc
  ELSE MarkExcluded(Tail(idx), flags,
                    [exc EXCEPT ![Head(idx).local + 1] =
                                   contains(flags, Head(idx).attribute)])

\* the vertices of SubGraph(*mg, excluded): the rows that are not excluded
SubGraph(exc) == {r \in Rows : ~exc[r + 1]}

\* PropertiesGraphCreator<M, SolverCategory::overlapping>::create
CreateOverlapping(idx, flags, exc) ==
  LET marked == MarkExcluded(idx, flags, exc)
  IN [excluded |-> marked, graphs |-> [mg |-> Rows, sg |-> SubGraph(marked)]]

\* PropertiesGraphCreator<M, SolverCategory::nonoverlapping>::create
CreateNonoverlapping(idx, flags, exc) ==
  LET marked == MarkExcluded(idx, flags, exc)
  IN [excluded |-> marked, graphs |-> [mg |-> Rows, sg |-> SubGraph(marked)]]

\* the caller holds a vector of flags with one entry per row and no graph
InitGraph ==
  /\ CommIdle
  /\ SeqIdle
  /\ indexSet \in GraphIndexSets
  /\ of \in SUBSET Attrs
  /\ category \in {"overlapping", "nonoverlapping"}
  /\ excluded \in [1..MaxCount -> BOOLEAN]
  /\ excludedIn = excluded
  /\ graphs = <<>>

\* create(matrix, excluded, pinfo, of)
Create ==
  /\ graphs = <<>>
  /\ LET r == IF category = "overlapping"
              THEN CreateOverlapping(indexSet, of, excluded)
              ELSE CreateNonoverlapping(indexSet, of, excluded)
     IN /\ excluded' = r.excluded
        /\ graphs' = <<r.graphs>>
  /\ excludedIn' = excluded
  /\ UNCHANGED <<indexSet, of, category, commVars, seqVars>>

\* free(graphs): the sub graph and the properties graph are deleted
FreeGraphs ==
  /\ graphs # <<>>
  /\ graphs' = <<>>
  /\ UNCHANGED <<indexSet, of, category, excluded, excludedIn, commVars, seqVars>>

NextGraph ==
  \/ Create
  \/ FreeGraphs

SpecGraph == InitGraph /\ [][NextGraph]_vars

\* the containers of p when it entered call k
SrcIn(p, k) == IF k = 1 THEN InitSrc(topo, flag, p) ELSE srcAfter[p][k - 1]

DstIn(p, k) == IF k = 1 THEN InitDst(topo, flag, policy, p) ELSE dstAfter[p][k - 1]

\* the list p keeps for peer q, empty if q is no peer of p
SendOf(p, q) == IF q \in DOMAIN iface[p] THEN iface[p][q].send ELSE <<>>

ReceiveOf(p, q) == IF q \in DOMAIN iface[p] THEN iface[p][q].receive ELSE <<>>

Range(list) == {list[k] : k \in 1..Len(list)}

\* positions of p that occur in the receive (send) list of some peer
ReceivePositions(p) == UNION {Range(ReceiveOf(p, q)) : q \in Procs}

SendPositions(p) == UNION {Range(SendOf(p, q)) : q \in Procs}

\* every destination position occurs in the receive list of at most one peer
UniqueReceive ==
  \A p \in Procs : \A q1, q2 \in Procs :
    q1 # q2 => Range(ReceiveOf(p, q1)) \cap Range(ReceiveOf(p, q2)) = {}

(* ------------------------------- claims ------------------------------- *)

\* C1: SizeOne data, Copy policy, every destination position in the receive list of at
\* most one peer, no transport error: after a forward call that returned, the
\* destination of Q holds at the i-th position of its receive list for P the value the
\* source of P held at the i-th position of P's send list for Q when P entered the call.
C1_ForwardCopyDeliversBySlot ==
  \A q \in Procs : \A k \in Calls :
    (flag = "SizeOne" /\ policy = "Copy" /\ IsForward(k) /\ outcome[q][k] = "ok"
       /\ UniqueReceive)
    => \A p \in Peers(q) :
         /\ Len(ReceiveOf(q, p)) = Len(SendOf(p, q))
         /\ \A i \in 1..Len(ReceiveOf(q, p)) :
              dstAfter[q][k][ReceiveOf(q, p)[i]] = SrcIn(p, k)[SendOf(p, q)[i]]

\* rank 0 returned from a forward Copy call in which it received one value from each of
\* two peers, and rank 1 from one in which it received two values from one peer
C1_Witness ==
  /\ flag = "SizeOne" /\ policy = "Copy" /\ IsForward(1) /\ UniqueReceive
  /\ outcome[0][1] = "ok" /\ outcome[1][1] = "ok"
  /\ \/ /\ Peers(0) = {1, 2}
        /\ dstAfter[0][1][1] = 21 /\ dstAfter[0][1][2] = 32
     \/ /\ Len(ReceiveOf(1, 0)) = 2
        /\ ReceiveOf(1, 0) = <<2, 1>> /\ SendOf(0, 1) = <<1, 2>>
        /\ dstAfter[1][1][2] = 11 /\ dstAfter[1][1][1] = 12

\* C2: for every topology and every pair of predicates, the send list of P for Q and
\* the receive list of Q for P have the same length and stand, slot by slot, for the
\* same global indices.
C2_InterfaceSymmetric ==
  \A p, q \in Procs :
    (p # q /\ p \in ifaceBuilt /\ q \in ifaceBuilt)
    => /\ Len(SendOf(p, q)) = Len(ReceiveOf(q, p))
       /\ GlobalSeq(topo, p, SendOf(p, q)) = GlobalSeq(topo, q, ReceiveOf(q, p))

\* ranks 0 and 1 built their interfaces; rank 0 sends two indices to rank 1, which
\* keeps them at other local positions
C2_Witness ==
  /\ {0, 1} \subseteq ifaceBuilt
  /\ Len(SendOf(0, 1)) = 2
  /\ SendOf(0, 1) # ReceiveOf(1, 0)
  /\ Len(ReceiveOf(0, 1)) >= 1

\* C3 as stated: for any symmetric interface a forward Copy call followed by a backward
\* Copy call leaves the source of every process as it was before the forward call.
C3_RoundTripAnyInterface ==
  \A p \in Procs : \A k \in Calls :
    (k + 1 \in Calls /\ policy = "Copy" /\ IsForward(k) /\ ~IsForward(k + 1)
       /\ outcome[p][k + 1] = "ok")
    => srcAfter[p][k + 1] = SrcIn(p, k)

\* C3 amended: the same when every destination position occurs in the receive list of
\* at most one peer.
C3_RoundTripUniqueReceive ==
  \A p \in Procs : \A k \in Calls :
    (k + 1 \in Calls /\ policy = "Copy" /\ IsForward(k) /\ ~IsForward(k + 1)
       /\ outcome[p][k + 1] = "ok" /\ UniqueReceive)
    => srcAfter[p][k + 1] = SrcIn(p, k)

\* rank 0 went through forward and backward with the Copy policy and the backward call
\* scattered the slab of a peer into its source
C3_Witness ==
  /\ policy = "Copy" /\ IsForward(1) /\ ~IsForward(2) /\ UniqueReceive
  /\ outcome[0][2] = "ok"
  /\ \E q \in Peers(0) : Len(scatLog[0][q]) >= 2
  /\ srcAfter[0][2] = InitSrc(topo, flag, 0)

\* C4: during and after a forward call the source is as it was on entry and the
\* destination differs from its value on entry only at positions of receive lists (for
\* an owner-to-copy exchange never at an owned position); during and after a backward
\* call the destination is as on entry and the source differs only at positions of
\* send lists.
C4_Frame ==
  \A p \in Procs :
    LET k == callIdx[p]
    IN IF IsForward(k)
       THEN /\ src[p] = SrcIn(p, k)
            /\ \A pos \in Positions(topo, p) \ ReceivePositions(p) :
                 dst[p][pos] = DstIn(p, k)[pos]
            /\ (sourceSet = {"owner"} /\ destSet = {"copy"})
               => \A pos \in Positions(topo, p) :
                    AttrAt(topo, p, pos) = "owner" => dst[p][pos] = DstIn(p, k)[pos]
       ELSE /\ dst[p] = DstIn(p, k)
            /\ \A pos \in Positions(topo, p) \ SendPositions(p) :
                 src[p][pos] = SrcIn(p, k)[pos]

\* rank 0 ran a forward call that changed its destination and then a backward call
\* that changed its source
C4_Witness ==
  /\ IsForward(1) /\ ~IsForward(2)
  /\ outcome[0][2] = "ok"
  /\ dstAfter[0][1] # InitDst(topo, flag, policy, 0)
  /\ srcAfter[0][2] # srcAfter[0][1]
  /\ Positions(topo, 0) \ ReceivePositions(0) # {}

\* C5: every process that leaves a call in which the transport reported an error on
\* some request of some process leaves it with CommunicationError, the processes whose
\* own requests all succeeded included.
C5_ErrorRaisedByAll ==
  \A p \in Procs : \A k \in Calls :
    (outcome[p][k] # "none" /\ k \in errCalls) => outcome[p][k] = "error"

\* all three processes left the first call with the error although the requests of
\* one of them all succeeded
C5_Witness ==
  /\ 1 \in errCalls
  /\ \A p \in Procs : outcome[p][1] = "error"
  /\ \E p \in Procs : success[p] = 1 /\ Peers(p) # {}
  /\ \E p \in Procs : success[p] = 0

\* the peers of p whose message the running call received without error
ReceivedOk(p) == {q \in DOMAIN msgInfo[p] : recvReq[p][q] = "doneOk"}

\* the container the running call of p scatters into, now and on entry
Target(p) == IF IsForward(callIdx[p]) THEN dst[p] ELSE src[p]

TargetIn(p) == IF IsForward(callIdx[p]) THEN DstIn(p, callIdx[p]) ELSE SrcIn(p, callIdx[p])

\* the list p scatters along, and the list its peer q gathered along
ScatterList(p, q) == IF IsForward(callIdx[p]) THEN ReceiveOf(p, q) ELSE SendOf(p, q)

\* number of primitive elements at the positions of a list
ElementsOf(p, list) == SumSeq([i \in 1..Len(list) |-> IF flag = "SizeOne" THEN 1 ELSE CountOf(GlobalAt(topo, p, list[i]))])

\* C6 as stated: a call that ends with CommunicationError leaves the container it
\* scatters into as it was before the call.
C6_NoPartialExchange ==
  \A p \in Procs : pc[p] = "failed" => Target(p) = TargetIn(p)

\* C6 amended: a call that ends with CommunicationError has scattered, in full, the
\* slab of every peer whose receive completed without error, and has left every
\* position unchanged that is in the list of no such peer.
C6_PartialExchangeByPeer ==
  \A p \in Procs :
    pc[p] = "failed"
    => /\ \A q \in ReceivedOk(p) :
            Len(scatLog[p][q]) = ElementsOf(p, ScatterList(p, q))
       /\ \A q \in DOMAIN msgInfo[p] \ ReceivedOk(p) : scatLog[p][q] = <<>>
       /\ \A pos \in Positions(topo, p) :
            (\A q \in ReceivedOk(p) : pos \notin Range(ScatterList(p, q)))
            => Target(p)[pos] = TargetIn(p)[pos]

\* rank 0 failed in a call in which the slab of one peer was scattered and the receive
\* from the other peer ended with an error
C6_Witness ==
  /\ pc[0] = "failed"
  /\ \E q1, q2 \in DOMAIN msgInfo[0] :
       /\ recvReq[0][q1] = "doneOk" /\ recvReq[0][q2] = "doneErr"
       /\ scatLog[0][q1] # <<>>
       /\ \E pos \in Range(ScatterList(0, q1)) : Target(0)[pos] # TargetIn(0)[pos]
       /\ \E pos \in Range(ScatterList(0, q2)) : Target(0)[pos] = TargetIn(0)[pos]

\* elementwise sum of two entries of a container
AddEntry(a, b) == IF flag = "SizeOne" THEN a + b ELSE [j \in DOMAIN a |-> a[j] + b[j]]

\* the peers of p that send to position pos of p in a forward call
SendersTo(p, pos) == {q \in Peers(p) : pos \in Range(ReceiveOf(p, q))}

\* the entry of the source of q, on entry to call k, that q sends for position pos of p
SentFor(q, p, pos, k) ==
  LET i == CHOOSE i \in 1..Len(ReceiveOf(p, q)) : ReceiveOf(p, q)[i] = pos
  IN SrcIn(q, k)[SendOf(q, p)[i]]

RECURSIVE AddAll(_, _, _, _, _)
AddAll(e, qs, p, pos, k) ==
  IF qs = <<>> THEN e
  ELSE AddAll(AddEntry(e, SentFor(Head(qs), p, pos, k)), Tail(qs), p, pos, k)

\* the destination of p after forward call k when the slabs are scattered in the order
\* of the ranks of the peers
RankOrderResult(p, k) ==
  [pos \in Positions(topo, p) |->
     LET qs == SortedSeq(SendersTo(p, pos))
     IN IF qs = <<>> THEN DstIn(p, k)[pos]
        ELSE IF policy = "Copy" THEN SentFor(qs[Len(qs)], p, pos, k)
        ELSE AddAll(DstIn(p, k)[pos], qs, p, pos, k)]

\* C7 as stated: whatever the order in which the receives complete, the destination
\* after a forward call that returned is the one the order of the ranks gives.
C7_AnyOrderSameResult ==
  \A p \in Procs : \A k \in Calls :
    (IsForward(k) /\ outcome[p][k] = "ok") => dstAfter[p][k] = RankOrderResult(p, k)

\* C7 amended: the same when no destination position occurs in the receive lists of
\* two peers or the scatter of the policy adds.
C7_AnyOrderSameResultDisjoint ==
  \A p \in Procs : \A k \in Calls :
    (IsForward(k) /\ outcome[p][k] = "ok" /\ (policy = "Copy" => UniqueReceive))
    => dstAfter[p][k] = RankOrderResult(p, k)

\* rank 0 returned from a forward call in which the message of peer 1 was scattered
\* after that of peer 2
C7_Witness ==
  /\ IsForward(1) /\ outcome[0][1] = "ok" /\ callIdx[0] = 2 /\ pc[0] = "ready"
  /\ (policy = "Copy" => UniqueReceive)
  /\ arrival[0] = <<2, 1>>
  /\ dstAfter[0][1] # InitDst(topo, flag, policy, 0)

\* C8 as stated: of two consecutive forward calls with the source unchanged between
\* them the second leaves the destination as the first left it.
C8_RepeatedForwardSame ==
  \A p \in Procs : \A k \in Calls :
    (k + 1 \in Calls /\ IsForward(k) /\ IsForward(k + 1) /\ outcome[p][k + 1] = "ok"
       /\ \A q \in Procs : SrcIn(q, k + 1) = SrcIn(q, k))
    => dstAfter[p][k + 1] = dstAfter[p][k]

\* C8 amended: the same for the Copy policy when no destination position occurs in the
\* receive lists of two peers.
C8_RepeatedForwardCopySame ==
  \A p \in Procs : \A k \in Calls :
    (k + 1 \in Calls /\ IsForward(k) /\ IsForward(k + 1) /\ outcome[p][k + 1] = "ok"
       /\ \A q \in Procs : SrcIn(q, k + 1) = SrcIn(q, k)
       /\ policy = "Copy" /\ UniqueReceive)
    => dstAfter[p][k + 1] = dstAfter[p][k]

\* rank 1 returned from the second of two forward Copy calls, each of which scattered
\* the slab of rank 0 into its destination
C8_Witness ==
  /\ policy = "Copy" /\ UniqueReceive
  /\ IsForward(1) /\ IsForward(2)
  /\ outcome[1][2] = "ok"
  /\ scatLog[1][0] # <<>>
  /\ dstAfter[1][1] # InitDst(topo, flag, policy, 1)
  /\ dstAfter[1][2] = dstAfter[1][1]

\* the scatter calls for a list whose positions hold the given counts: every
\* <<slot, subindex>> once, ascending, reading the slab consecutively from its start
IsFullScatter(log, counts) ==
  /\ Len(log) = SumSeq(counts)
  /\ \A n \in 1..Len(log) :
       /\ log[n][1] \in 0..(Len(counts) - 1)
       /\ log[n][2] \in 0..(counts[log[n][1] + 1] - 1)
       /\ log[n][3] = n - 1
  /\ \A n, m \in 1..Len(log) :
       n < m => \/ log[n][1] < log[m][1]
                \/ log[n][1] = log[m][1] /\ log[n][2] < log[m][2]

\* the counts of a container of p at the positions of a list
CountsAt(data, list) == [i \in 1..Len(list) |-> Len(data[list[i]])]

\* the requests and the scatter log of p are those of call callIdx[p]
RequestsOfCall(p) == pc[p] \in {"waitAny", "sendWait", "reduce", "failed", "done"}

\* C9: for VariableSize data, after build the byte size recorded for the send slab of
\* a peer is the sum of the counts of the source at the positions of the send list
\* times the element size, and that of the receive slab likewise with the destination;
\* the scatter of a received message makes one call for every position of the list and
\* every subindex below its count, ascending, reading the slab consecutively.
C9_VariableSizeSlabs ==
  \A p \in Procs :
    (flag = "VariableSize" /\ interface_[p])
    => \A q \in Peers(p) :
         /\ msgInfo[p][q].first.size_
              = SumSeq(CountsAt(InitSrc(topo, flag, p), SendOf(p, q))) * ElemSize
         /\ msgInfo[p][q].second.size_
              = SumSeq(CountsAt(InitDst(topo, flag, policy, p), ReceiveOf(p, q))) * ElemSize
         /\ (RequestsOfCall(p) /\ recvReq[p][q] = "doneOk")
            => IsFullScatter(scatLog[p][q], CountsAt(Target(p), ScatterList(p, q)))

\* rank 1 scattered a message of three elements for two positions, one of them a block
\* of two
C9_Witness ==
  /\ flag = "VariableSize" /\ interface_[1]
  /\ RequestsOfCall(1) /\ recvReq[1][0] = "doneOk"
  /\ Len(ScatterList(1, 0)) = 2
  /\ Len(scatLog[1][0]) >= 3
  /\ msgInfo[1][0].second.size_ > Len(ReceiveOf(1, 0)) * ElemSize

\* C10: in a forward call with the adding policy, source = owner and dest = copy, every
\* copy position whose owner is a peer ends with its value on entry plus the owner's
\* source value, added once; every other position of the destination and the whole
\* source are as on entry.
C10_SumAddsOwnerOnce ==
  \A p \in Procs : \A k \in Calls :
    (policy = "Sum" /\ IsForward(k) /\ outcome[p][k] = "ok"
       /\ sourceSet = {"owner"} /\ destSet = {"copy"})
    => /\ srcAfter[p][k] = SrcIn(p, k)
       /\ \A pos \in Positions(topo, p) :
            LET g == GlobalAt(topo, p, pos)
            IN IF AttrAt(topo, p, pos) = "copy" /\ HasOwner(topo, g)
               THEN dstAfter[p][k][pos]
                      = AddEntry(DstIn(p, k)[pos],
                                 SrcIn(OwnerOf(topo, g), k)[PosOf(topo, OwnerOf(topo, g), g)])
               ELSE dstAfter[p][k][pos] = DstIn(p, k)[pos]

\* rank 1 held at a copy position the block the owner holds and returned from the
\* forward call with the block doubled
C10_Witness ==
  /\ policy = "Sum" /\ IsForward(1) /\ outcome[1][1] = "ok"
  /\ sourceSet = {"owner"} /\ destSet = {"copy"}
  /\ \E pos \in Positions(topo, 1) :
       /\ AttrAt(topo, 1, pos) = "copy"
       /\ InitDst(topo, flag, policy, 1)[pos]
            = InitSrc(topo, flag, 0)[PosOf(topo, 0, GlobalAt(topo, 1, pos))]
       /\ dstAfter[1][1][pos] = AddEntry(InitDst(topo, flag, policy, 1)[pos],
                                         InitDst(topo, flag, policy, 1)[pos])
  /\ dstAfter[0][1][0] = InitDst(topo, flag, policy, 0)[0]

\* p built its plan from an Interface with zero peers
EmptyPlan(p) == interface_[p] /\ Peers(p) = {}

\* a process with an empty plan has no request, gathered and scattered nothing and
\* holds its containers as constructed
NoOpExchange(p) ==
  /\ sendReq[p] = NullRequests /\ recvReq[p] = NullRequests
  /\ msgInfo[p] = <<>>
  /\ buffers[p] = [b0 |-> <<>>, b1 |-> <<>>]
  /\ scatLog[p] = [q \in Procs |-> <<>>]
  /\ src[p] = InitSrc(topo, flag, p)
  /\ dst[p] = InitDst(topo, flag, policy, p)

\* C11 as stated: with a plan built from an Interface with zero peers, forward and
\* backward post no request, gather and scatter nothing, leave both containers
\* unchanged and never raise CommunicationError.
C11_EmptyInterfaceNeverRaises ==
  \A p \in Procs :
    EmptyPlan(p) => /\ NoOpExchange(p)
                    /\ \A k \in Calls : outcome[p][k] # "error"

\* C11 amended: the same, except that the call raises CommunicationError when the
\* transport reported an error to another process in that exchange.
C11_EmptyInterfaceNoOp ==
  \A p \in Procs :
    EmptyPlan(p) => /\ NoOpExchange(p)
                    /\ \A k \in Calls : outcome[p][k] = "error" => k \in errCalls

\* rank 2, whose Interface has no peer, returned from a forward and a backward call
\* while ranks 0 and 1 exchanged messages
C11_Witness ==
  /\ EmptyPlan(2) /\ Peers(0) # {}
  /\ outcome[2][1] = "ok" /\ outcome[2][2] = "ok"
  /\ script[1] # script[2]
  /\ dstAfter[0][1] # InitDst(topo, flag, policy, 0)

\* the predicates given to build select no index of p for any peer
EmptyProjection(p) ==
  \A q \in Procs \ {p} : SelectedList(p, q, TRUE) = <<>> /\ SelectedList(p, q, FALSE) = <<>>

\* a request of p that forward() or backward() started
StartedRequests(p) ==
  {<<d, q>> \in {0, 1} \X Procs :
     dtReq[p][d][q].recv \in {"started", "ok"} \/ dtReq[p][d][q].send \in {"started", "ok"}}

\* C12 as stated: when the predicates given to DatatypeCommunicator::build select no
\* index for any peer, forward() and backward() start no send request and no receive
\* request, also when the RemoteIndices table lists peers.
C12_EmptyProjectionStartsNoRequest ==
  (\A p \in Procs : EmptyProjection(p)) => \A p \in Procs : StartedRequests(p) = {}

\* number of times p released an id of its allocation log
ReleasedTimes(p, id) == Cardinality({i \in DOMAIN relLog[p] : relLog[p][i] = id})

\* request arrays and descriptors p holds: allocated and not released
HeldIds(p) == {id \in DOMAIN allocLog[p] : ReleasedTimes(p, id) = 0}

\* the plan build computes for the Interface p holds now, peer by peer: the slabs follow
\* each other in ascending rank of the peer
ExpectedStart(p, q, send) ==
  SumSeq([i \in 1..Len(PeerSeq(p)) |->
            IF PeerSeq(p)[i] < q
            THEN ElementsOf(p, IF send THEN SendOf(p, PeerSeq(p)[i])
                               ELSE ReceiveOf(p, PeerSeq(p)[i]))
            ELSE 0])

ExpectedPlan(p) ==
  [q \in Peers(p) |->
     [first  |-> MessageInformation(ExpectedStart(p, q, TRUE),
                                    ElementsOf(p, SendOf(p, q)) * ElemSize),
      second |-> MessageInformation(ExpectedStart(p, q, FALSE),
                                    ElementsOf(p, ReceiveOf(p, q)) * ElemSize)]]

\* position pos of q is scattered into from peer p only
OnlyFrom(q, p, pos, forward) ==
  \A r \in Peers(q) \ {p} :
    pos \notin Range(IF forward THEN ReceiveOf(q, r) ELSE SendOf(q, r))

\* p built its communicator a second time, on the second Interface
Rebuilt(p) == Builds(p) = 2 /\ interface_[p]

\* C13: after build, exchanges, free() and build on a different Interface, the plan has
\* exactly one entry per peer of the new Interface with the new offsets and sizes, both
\* buffers of the first build were released exactly once, exactly the two buffers of the
\* second build are held, and every exchange on the new plan that returned delivered
\* along the new lists: forward from the send list of P to the receive list of Q,
\* backward from the receive list of P to the send list of Q (at the positions only
\* one peer writes).
C13_RebuildYieldsNewPlan ==
  \A q \in Procs :
    Rebuilt(q) =>
      /\ iface[q] = SecondInterface(q)
      /\ msgInfo[q] = ExpectedPlan(q)
      /\ relLog[q] = <<1, 2>>
      /\ HeldIds(q) = {bufId[q].b0, bufId[q].b1} /\ HeldIds(q) = {3, 4}
      /\ Len(buffers[q].b0) * ElemSize = bufferSize[q].b0
      /\ Len(buffers[q].b1) * ElemSize = bufferSize[q].b1
      /\ \A k \in Calls : \A p \in Peers(q) :
           (k > rebuildAt /\ outcome[q][k] = "ok") =>
             IF IsForward(k)
             THEN \A i \in 1..Len(ReceiveOf(q, p)) :
                    OnlyFrom(q, p, ReceiveOf(q, p)[i], TRUE) =>
                      dstAfter[q][k][ReceiveOf(q, p)[i]] = SrcIn(p, k)[SendOf(p, q)[i]]
             ELSE \A i \in 1..Len(SendOf(q, p)) :
                    OnlyFrom(q, p, SendOf(q, p)[i], FALSE) =>
                      srcAfter[q][k][SendOf(q, p)[i]] = DstIn(p, k)[ReceiveOf(p, q)[i]]

\* rank 0 freed and rebuilt after a first forward call, its new plan differs from the
\* plan of the first Interface, and it returned from a forward call on the new plan
\* that changed its destination
C13_Witness ==
  /\ Rebuilt(0) /\ rebuildAt = 1 /\ IsForward(2)
  /\ Peers(0) # {}
  /\ iface[0] # InterfaceOf(topo, 0, sourceSet, destSet)
  /\ outcome[0][1] = "ok" /\ outcome[0][2] = "ok"
  /\ dstAfter[0][2] # dstAfter[0][1]

\* bytes the plan of the Interface of p needs for sending (receiving)
ExpectedBytes(p, send) ==
  SumSeq([i \in 1..Len(PeerSeq(p)) |->
            ElementsOf(p, IF send THEN SendOf(p, PeerSeq(p)[i])
                          ELSE ReceiveOf(p, PeerSeq(p)[i]))]) * ElemSize

\* C15: forward and backward never modify the plan: in every state after build, during
\* and after any number and order of exchanges, the message information is the one
\* build computed for the Interface, the buffer sizes are the ones build computed, the
\* buffers are the two allocations of build with their allocated lengths, and the
\* interface reference is set.
C15_PlanUnchangedByExchanges ==
  \A p \in Procs :
    pc[p] \notin {"start", "idle"} =>
      /\ msgInfo[p] = ExpectedPlan(p)
      /\ bufferSize[p] = [b0 |-> ExpectedBytes(p, TRUE), b1 |-> ExpectedBytes(p, FALSE)]
      /\ bufId[p] = [b0 |-> 1, b1 |-> 2] /\ allocLog[p] = <<"buffer", "buffer">>
      /\ relLog[p] = <<>>
      /\ Len(buffers[p].b0) * ElemSize = bufferSize[p].b0
      /\ Len(buffers[p].b1) * ElemSize = bufferSize[p].b1
      /\ interface_[p]

\* rank 0, with two peers, returned from a forward and from a backward call
C15_Witness ==
  /\ Peers(0) = {1, 2}
  /\ script[1] # script[2]
  /\ outcome[0][1] = "ok" /\ outcome[0][2] = "ok"
  /\ pc[0] = "done"

\* Q is a peer in the Interface of P, P is none in the Interface of Q
OneSided(p, q) ==
  /\ {p, q} \subseteq ifaceBuilt
  /\ q \in Peers(p) /\ p \notin Peers(q)

\* C16: if peer Q is in the plan of P but P is not in the plan of Q, no call of P ever
\* returns: neither its synchronous send to Q nor its receive from Q is ever matched.
C16_OneSidedPeerHangs ==
  \A p, q \in Procs :
    OneSided(p, q) =>
      /\ \A k \in Calls : outcome[p][k] = "none"
      /\ sendReq[p][q] \in {"null", "posted"}
      /\ recvReq[p][q] \in {"null", "posted"}
      /\ pc[p] \notin {"sendWait", "reduce", "done", "failed"}

\* rank 0 waits in its forward call with the send to rank 1 and the receive from rank 1
\* posted, while rank 1, whose Interface omits rank 0, has completed all its requests
C16_Witness ==
  /\ OneSided(0, 1) /\ IsForward(1)
  /\ pc[0] = "waitAny" /\ sendReq[0][1] = "posted" /\ recvReq[0][1] = "posted"
  /\ pc[1] = "reduce"

\* C17 as stated: when every process that occurs in some Interface calls forward, the
\* call returns on all of them, even if a process of the peer group that occurs in no
\* Interface does not call.
C17_SubsetCollectiveReturns ==
  <>(ifaceBuilt = Procs /\ \A p \in Occurring : outcome[p][1] # "none")

\* C17 amended: the messages go between the peers of the Interface only, but the call
\* ends in an all-reduce over the whole peer group: while a process of the group that
\* occurs in no Interface does not call, no call returns on any process, and the
\* processes that called hold no request for a process outside their Interface.
C17_WholeGroupCollective ==
  /\ Absent # {} => \A p \in Procs : \A k \in Calls : outcome[p][k] = "none"
  /\ \A p \in Procs : \A q \in Procs \ Peers(p) :
       sendReq[p][q] = "null" /\ recvReq[p][q] = "null"

\* ranks 0 and 1 completed every send and receive of their first call and wait in the
\* all-reduce; rank 2, which occurs in no Interface, built its plan and does not call
C17_Witness ==
  /\ Absent = {2} /\ Occurring = {0, 1}
  /\ pc[0] = "reduce" /\ pc[1] = "reduce" /\ pc[2] = "ready"
  /\ contrib[1][0] = 1 /\ contrib[1][1] = 1 /\ contrib[1][2] = -1
  /\ recvReq[0][1] = "doneOk" /\ recvReq[1][0] = "doneOk"

\* the container p gathers from in its k-th call, as it was when p entered the call
EntryOf(p, k) == IF IsForward(k) THEN SrcIn(p, k) ELSE DstIn(p, k)

\* the list p gathers along for peer q in its k-th call
GatherListOf(p, q, k) == IF IsForward(k) THEN SendOf(p, q) ELSE ReceiveOf(p, q)

\* the primitive elements of a container along a list of positions
RECURSIVE FlatAlong(_, _)
FlatAlong(data, list) ==
  IF list = <<>> THEN <<>>
  ELSE (IF flag = "SizeOne" THEN <<data[Head(list)]>> ELSE data[Head(list)])
       \o FlatAlong(data, Tail(list))

\* the slab of the receive buffer of q for peer p
ReceivedSlab(q, p) ==
  [i \in 1..(RecvSlab(q, p).size_ \div ElemSize) |->
     ReadBuffer(RecvBuffer(q), RecvSlab(q, p).start_ + i - 1)]

\* C18: successive exchanges do not mix: a send of P meets a receive of Q only when
\* both are in the call of the same number, and what Q holds in the slab of P once its
\* receive of the k-th call completed is what P gathered in its own k-th call from the
\* container as it was when P entered that call.
C18_ExchangesDoNotMix ==
  \A p, q \in Procs :
    /\ Matched(p, q) => callIdx[p] = callIdx[q]
    /\ (RequestsOfCall(q) /\ p \in DOMAIN msgInfo[q] /\ recvReq[q][p] \in {"ok", "doneOk"})
       => ReceivedSlab(q, p)
            = FlatAlong(EntryOf(p, callIdx[q]), GatherListOf(p, q, callIdx[q]))

\* rank 1 completed, in its second call (a backward call after a forward call), the
\* receive of the two values rank 0 gathered in its second call, while rank 0 is still
\* in that call
C18_Witness ==
  /\ callIdx[0] = 2 /\ callIdx[1] = 2 /\ script = <<"F", "B">>
  /\ outcome[0][2] = "none" /\ pc[1] = "sendWait"
  /\ recvReq[1][0] = "doneOk"
  /\ Len(ReceivedSlab(1, 0)) > 0
  /\ ReceivedSlab(1, 0) = FlatAlong(dstAfter[0][1], ReceiveOf(0, 1))

\* the Interface with the send and receive lists of every peer swapped
Swapped(ifc) ==
  [p \in DOMAIN ifc |->
     [q \in DOMAIN ifc[p] |-> [send |-> ifc[p][q].receive, receive |-> ifc[p][q].send]]]

\* the scatter of the policy on an entry of a container
CombineEntry(old, v) ==
  IF flag = "SizeOne" THEN Combine(policy, old, v)
  ELSE [j \in DOMAIN old |-> Combine(policy, old[j], v[j])]

\* the entries at the positions of a list are combined, slot by slot, with the entries
\* of another container at the positions of a second list
RECURSIVE CombineAlong(_, _, _, _)
CombineAlong(data, list, from, fromList) ==
  IF list = <<>> \/ fromList = <<>> THEN data
  ELSE CombineAlong([data EXCEPT ![Head(list)] = CombineEntry(@, from[Head(fromList)])],
                    Tail(list), from, Tail(fromList))

\* forward(source, dest) on process q over an Interface ifc (of all processes), the
\* messages being scattered in the given order of the peers: from the send list of
\* each peer p into the receive list of q
RECURSIVE ForwardOn(_, _, _, _, _)
ForwardOn(ifc, source, dest, q, order) ==
  IF order = <<>> THEN dest
  ELSE LET p == Head(order)
       IN ForwardOn(ifc, source,
                    CombineAlong(dest, ifc[q][p].receive, source[p], ifc[p][q].send),
                    q, Tail(order))

\* q returned from call k without error and has not entered another call since
JustReturned(q, k) ==
  /\ outcome[q][k] = "ok"
  /\ \/ pc[q] = "done" /\ callIdx[q] = k
     \/ pc[q] = "ready" /\ callIdx[q] = k + 1

\* C19: backward(source, dest) is forward(dest, source) on the communicator built from
\* the Interface with the lists of every peer swapped: its plan is the plan of that
\* build (the slabs of the send side and of the receive side exchanged), it leaves
\* dest as forward leaves its source, and source ends as the destination of that
\* forward call ends; a forward call ends as forward on the Interface itself.
C19_BackwardMirrorsForward ==
  \A q \in Procs :
    /\ interface_[q] =>
         LET plan == BuildLoop(PeerSeq(q), Swapped(iface)[q], flag, dst[q], src[q],
                               [info |-> <<>>, b0 |-> 0, b1 |-> 0])
         IN /\ plan.info = [p \in DOMAIN msgInfo[q] |->
                              [first  |-> msgInfo[q][p].second,
                               second |-> msgInfo[q][p].first]]
            /\ plan.b0 * ElemSize = bufferSize[q].b1
            /\ plan.b1 * ElemSize = bufferSize[q].b0
    /\ \A k \in Calls :
         JustReturned(q, k) =>
           IF IsForward(k)
           THEN /\ dstAfter[q][k]
                     = ForwardOn(iface, [p \in Procs |-> SrcIn(p, k)], DstIn(q, k),
                                 q, arrival[q])
                /\ srcAfter[q][k] = SrcIn(q, k)
           ELSE /\ srcAfter[q][k]
                     = ForwardOn(Swapped(iface), [p \in Procs |-> DstIn(p, k)],
                                 SrcIn(q, k), q, arrival[q])
                /\ dstAfter[q][k] = DstIn(q, k)

\* rank 0 returned from a backward call that was its first call: its source changed at
\* the positions of its send lists (here by the additive policy on blocks), its
\* destination did not
C19_Witness ==
  /\ ~IsForward(1) /\ JustReturned(0, 1)
  /\ Peers(0) # {} /\ flag = "VariableSize" /\ policy = "Sum"
  /\ \E p \in Peers(0) : SendOf(0, p) # <<>> /\ ReceiveOf(0, p) # SendOf(0, p)
  /\ srcAfter[0][1] # InitSrc(topo, flag, 0)
  /\ dstAfter[0][1] = InitDst(topo, flag, policy, 0)

\* the one container of p as it was when p entered call k
DataIn(p, k) == SrcIn(p, k)

\* the slab of the send buffer of p for peer q
SentSlab(p, q) ==
  [i \in 1..(SendSlab(p, q).size_ \div ElemSize) |->
     ReadBuffer(SendBuffer(p), SendSlab(p, q).start_ + i - 1)]

\* p is in a call, between its gather and the completion of its sends
Sending(p) == pc[p] \in {"gathered", "recvPosted", "waitAny", "sendWait"}

\* C20: forward(data) and backward(data) are the two-container calls with source and
\* dest bound to one container: the container is gathered before anything is
\* scattered, every value a process sends or a peer receives from it is the value data
\* held when the process entered the call, also when send and receive lists share
\* positions, and the call ends as the two-container call on that one container.
C20_SameContainerSendsEntryValues ==
  \A p \in Procs :
    /\ src[p] = dst[p]
    /\ pc[p] \in {"gathered", "recvPosted"} =>
         /\ src[p] = DataIn(p, callIdx[p])
         /\ scatLog[p] = [q \in Procs |-> <<>>]
    /\ Sending(p) =>
         \A q \in DOMAIN msgInfo[p] :
           SentSlab(p, q) = FlatAlong(DataIn(p, callIdx[p]), GatherListOf(p, q, callIdx[p]))
    /\ RequestsOfCall(p) =>
         \A q \in DOMAIN msgInfo[p] :
           recvReq[p][q] \in {"ok", "doneOk"} =>
             ReceivedSlab(p, q)
               = FlatAlong(DataIn(q, callIdx[p]), GatherListOf(q, p, callIdx[p]))
    /\ \A k \in Calls :
         JustReturned(p, k) =>
           /\ srcAfter[p][k] = dstAfter[p][k]
           /\ srcAfter[p][k]
                = ForwardOn(IF IsForward(k) THEN iface ELSE Swapped(iface),
                            [q \in Procs |-> DataIn(q, k)], DataIn(p, k), p, arrival[p])

\* rank 0 scattered the message of rank 1 into positions that are also in its send list
\* for rank 1 while its own message to rank 1 has not left yet; the slab still holds the
\* values of the entry to the call
C20_Witness ==
  /\ same /\ IsForward(1) /\ callIdx[0] = 1
  /\ Range(SendOf(0, 1)) \cap Range(ReceiveOf(0, 1)) # {}
  /\ pc[0] = "sendWait" /\ recvReq[0][1] = "doneOk" /\ sendReq[0][1] = "posted"
  /\ src[0] # InitSrc(topo, flag, 0)
  /\ SentSlab(0, 1) = FlatAlong(InitSrc(topo, flag, 0), SendOf(0, 1))
  /\ SentSlab(0, 1) # FlatAlong(src[0], SendOf(0, 1))

\* what the latest build of p allocated
LatestBuild(p) ==
  LET n == Len(DtPeerSeq(p))
  IN {id \in DOMAIN allocLog[p] : id > Len(allocLog[p]) - (2 * n + 2)}

\* C14 as stated: in build, exchanges, free(), build and destruction of a
\* DatatypeCommunicator nothing is released twice, after the second build nothing of
\* the first build is still held, and after destruction nothing is held.
C14_DatatypeReleasedExactlyOnce ==
  \A p \in Procs :
    /\ \A id \in DOMAIN allocLog[p] : ReleasedTimes(p, id) <= 1
    /\ DtBuilds(p) = 2 /\ pc[p] # "dtDestroyed" => HeldIds(p) = LatestBuild(p)
    /\ pc[p] = "dtDestroyed" => HeldIds(p) = {}

\* the ranks p holds a send (receive) request for
SendRanks(p) == {q \in Procs : sendReq[p][q] # "null"}

RecvRanks(p) == {q \in Procs : recvReq[p][q] # "null"}

\* C21: in every exchange a process posts a send and a receive for every peer of its
\* plan, also for a peer whose slab is empty, and for no other rank; the payload for
\* peer Q is the slab of Q: as many elements as the plan records bytes for, holding
\* the values gathered along the list of Q in list order and nothing else.
C21_WireFormat ==
  \A p \in Procs :
    /\ pc[p] \in {"recvPosted", "waitAny", "sendWait", "reduce"} => RecvRanks(p) = Peers(p)
    /\ pc[p] \in {"waitAny", "sendWait"} => SendRanks(p) = Peers(p)
    /\ pc[p] \in {"gathered", "recvPosted"} => SendRanks(p) = {}
    /\ Sending(p) =>
         \A q \in Peers(p) :
           /\ SentSlab(p, q)
                = FlatAlong(EntryOf(p, callIdx[p]), GatherListOf(p, q, callIdx[p]))
           /\ Len(SentSlab(p, q)) * ElemSize = SendSlab(p, q).size_
           /\ SendSlab(p, q).size_
                = ElementsOf(p, GatherListOf(p, q, callIdx[p])) * ElemSize

\* rank 0 posted a send with an empty slab to rank 1 and one to rank 2, and rank 1
\* posted its one-value slab for rank 0, in a forward call
C21_Witness ==
  /\ IsForward(callIdx[0]) /\ pc[0] = "waitAny" /\ SendRanks(0) = {1, 2}
  /\ SendSlab(0, 1).size_ = 0 /\ SentSlab(0, 1) = <<>>
  /\ callIdx[1] = callIdx[0] /\ pc[1] = "waitAny" /\ SendRanks(1) = {0}
  /\ Len(SentSlab(1, 0)) = 1 /\ SentSlab(1, 0) = <<src[1][0]>>


\* call k of the DatatypeCommunicator runs on the requests of its first build
OnFirstBuild(k) == rebuildAt = 0 \/ k <= rebuildAt

ScatterCounts(p, q) ==
  [i \in 1..Len(ScatterList(p, q)) |->
     IF flag = "SizeOne" THEN 1 ELSE CountOf(GlobalAt(topo, p, ScatterList(p, q)[i]))]

\* the receives of the running call of p that wait-any returned
Processed(p) == {q \in Peers(p) : recvReq[p][q] \in {"doneOk", "doneErr"}}

\* C23: the steps of one buffered exchange on a process: when the buffer is gathered no
\* request of the call is posted yet; while the receives are being posted no send is
\* posted; a slab is scattered only after the receive from its peer completed, by one
\* scatter call per slot (and subindex) in the order of the list; the wait for the
\* sends starts only when every receive was processed; the process enters the success
\* reduction only when no send is pending, and nothing is scattered after that.
C23_BufferedStepOrder ==
  \A p \in Procs :
    /\ pc[p] = "gathered" =>
         /\ SendRanks(p) = {}
         /\ \A q \in Procs : recvReq[p][q] # "posted" /\ scatLog[p][q] = <<>>
    /\ pc[p] = "recvPosted" =>
         /\ SendRanks(p) = {}
         /\ \A q \in Peers(p) :
              recvReq[p][q] \in {"posted", "ok", "err"} /\ scatLog[p][q] = <<>>
    /\ pc[p] = "waitAny" => Cardinality(Processed(p)) = waitCount[p]
    /\ RequestsOfCall(p) =>
         \A q \in Peers(p) :
           /\ scatLog[p][q] # <<>> => recvReq[p][q] = "doneOk"
           /\ recvReq[p][q] = "doneOk" => IsFullScatter(scatLog[p][q], ScatterCounts(p, q))
    /\ pc[p] = "sendWait" => Processed(p) = Peers(p)
    /\ contrib[callIdx[p]][p] # -1 <=> pc[p] \in {"reduce", "done", "failed"}
    /\ pc[p] \in {"reduce", "done", "failed"} =>
         /\ SendRanks(p) = {}
         /\ Processed(p) = Peers(p)

\* rank 0 of the star scattered the slab of rank 2 while its receive from rank 1 is
\* still pending and both sends are posted
C23_Witness ==
  /\ Peers(0) = {1, 2} /\ pc[0] = "waitAny" /\ waitCount[0] = 1
  /\ recvReq[0][2] = "doneOk" /\ scatLog[0][2] # <<>>
  /\ recvReq[0][1] = "posted" /\ scatLog[0][1] = <<>>
  /\ SendRanks(0) = {1, 2}


\* the requests of the running call of p: receive (send) requests in a given state
DtRecvIn(p, states) ==
  \A q \in DOMAIN messageTypes[p] : dtReq[p][Direction(p)][q].recv \in states

DtSendIn(p, states) ==
  \A q \in DOMAIN messageTypes[p] : dtReq[p][Direction(p)][q].send \in states

\* C24: the steps of one DatatypeCommunicator exchange on a process: every receive
\* request is started while no send request is started yet; the wait for the sends
\* ends with every send complete while receives may still be pending; the process
\* enters the reduction of the success flag only after both waits, with no request
\* active; and a call that returned raised CommunicationError if and only if some
\* process contributed 0, which is the case exactly when the transport reported an
\* error in that call.
C24_DatatypeStepOrder ==
  \A p \in Procs :
    /\ pc[p] = "dtReady" => DtRecvIn(p, {"inactive"}) /\ DtSendIn(p, {"inactive"})
    /\ pc[p] = "dtRecvStarted" =>
         DtRecvIn(p, {"started", "ok", "err"}) /\ DtSendIn(p, {"inactive"})
    /\ pc[p] = "dtSendStarted" =>
         DtRecvIn(p, {"started", "ok", "err"}) /\ DtSendIn(p, {"started", "ok", "err"})
    /\ pc[p] = "dtSendsDone" =>
         DtRecvIn(p, {"started", "ok", "err"}) /\ DtSendIn(p, {"ok", "err"})
    /\ pc[p] = "dtReduce" => DtRecvIn(p, {"inactive"}) /\ DtSendIn(p, {"inactive"})
    /\ contrib[callIdx[p]][p] # -1 <=> pc[p] \in {"dtReduce", "dtDone", "failed", "dtDestroyed"}
    /\ \A k \in Calls :
         outcome[p][k] # "none" =>
           /\ \A q \in Procs : contrib[k][q] # -1
           /\ outcome[p][k] = "error" <=> \E q \in Procs : contrib[k][q] = 0
           /\ outcome[p][k] = "error" <=> k \in errCalls

\* the transport reported an error on a receive of rank 0 only: rank 1, whose own
\* requests all succeeded, raised CommunicationError in the first call while rank 0
\* has not yet left the reduction
C24_Witness ==
  /\ outcome[1][1] = "error" /\ contrib[1][1] = 1 /\ contrib[1][0] = 0
  /\ pc[1] = "failed" /\ pc[0] = "dtReduce"
  /\ errCalls = {1}

\* the peers of the plan of p below rank q, and the element indices of a slab
EarlierPeers(p, q) == SortedSeq({r \in DOMAIN msgInfo[p] : r < q})

SlabIndices(info) == info.start_ .. (info.start_ + info.size_ \div ElemSize - 1)

\* C25: slab layout after BufferedCommunicator::build. With the peers of the Interface
\* taken in ascending rank, the send offset of a peer (in elements) is the sum of the
\* send element counts of all earlier peers and the receive offset likewise; the byte
\* size of a slab is its element count times the element size; each buffer size is the
\* sum of its slab sizes; so every element of a buffer lies in the slab of exactly one
\* peer.
C25_SlabLayout ==
  \A p \in Procs :
    pc[p] \notin {"start", "idle"} =>
      /\ DOMAIN msgInfo[p] = Peers(p)
      /\ \A q \in Peers(p) :
           LET before == EarlierPeers(p, q)
           IN /\ msgInfo[p][q].first.start_ =
                   SumSeq([i \in 1..Len(before) |-> ElementsOf(p, SendOf(p, before[i]))])
              /\ msgInfo[p][q].second.start_ =
                   SumSeq([i \in 1..Len(before) |-> ElementsOf(p, ReceiveOf(p, before[i]))])
              /\ msgInfo[p][q].first.size_ = ElementsOf(p, SendOf(p, q)) * ElemSize
              /\ msgInfo[p][q].second.size_ = ElementsOf(p, ReceiveOf(p, q)) * ElemSize
      /\ LET all == SortedSeq(Peers(p))
         IN /\ bufferSize[p].b0 = SumSeq([i \in 1..Len(all) |-> msgInfo[p][all[i]].first.size_])
            /\ bufferSize[p].b1 = SumSeq([i \in 1..Len(all) |-> msgInfo[p][all[i]].second.size_])
      /\ \A e \in 0..(bufferSize[p].b0 \div ElemSize - 1) :
           Cardinality({q \in Peers(p) : e \in SlabIndices(msgInfo[p][q].first)}) = 1
      /\ \A e \in 0..(bufferSize[p].b1 \div ElemSize - 1) :
           Cardinality({q \in Peers(p) : e \in SlabIndices(msgInfo[p][q].second)}) = 1
      /\ \A q \in Peers(p) :
           /\ SlabIndices(msgInfo[p][q].first) \subseteq 0..(bufferSize[p].b0 \div ElemSize - 1)
           /\ SlabIndices(msgInfo[p][q].second) \subseteq 0..(bufferSize[p].b1 \div ElemSize - 1)

\* rank 0 built a plan for two peers: the slabs of the second peer start behind the
\* slabs of the first, and its receive slab holds more than one primitive element
C25_Witness ==
  /\ flag = "VariableSize" /\ pc[0] = "ready" /\ callIdx[0] = 1
  /\ Peers(0) = {1, 2}
  /\ msgInfo[0][2].first.start_ = 1 /\ msgInfo[0][2].second.start_ > 1
  /\ msgInfo[0][2].second.size_ > ElemSize

\* the processes that hold a built DatatypeCommunicator
DtBuilt == {p \in Procs : pc[p] \in {"dtReady", "dtRecvStarted", "dtSendStarted",
                                     "dtSendsDone", "dtReduce", "dtDone"}}

\* the descriptor records for a list of positions of a container: entry k has the
\* displacement of the k-th position from position 0 and its number of elements
DescribesList(type, data, list) ==
  /\ Len(type.blocks) = Len(list)
  /\ Len(type.blocks) <= type.size
  /\ \A k \in 1..Len(list) :
       /\ type.blocks[k].displ = Displacement(flag, data, list[k])
       /\ type.blocks[k].length = getSize(flag, data, list[k])

\* C26: after DatatypeCommunicator::build, for each peer the k-th entry of the send
\* descriptor has the displacement of sendData at the k-th position of the send list
\* from sendData at position 0 and the length getSize gives there, the number of
\* entries is the length of the list and does not exceed the reserved size; the
\* receive descriptor is the same for receiveData and the receive list.
C26_DatatypeDescriptors ==
  \A p \in DtBuilt : \A q \in DOMAIN messageTypes[p] :
    /\ DescribesList(messageTypes[p][q].first, src[p], SendOf(p, q))
    /\ DescribesList(messageTypes[p][q].second, dst[p], ReceiveOf(p, q))

\* blocks of several elements: the send descriptor of rank 0 for rank 1 has two
\* entries, the second one three elements long and three elements behind position 0;
\* its receive descriptor has one entry
C26_Witness ==
  /\ flag = "VariableSize" /\ 0 \in DtBuilt
  /\ Len(SendOf(0, 1)) = 2 /\ Len(ReceiveOf(0, 1)) = 1
  /\ messageTypes[0][1].first.blocks[2] = [displ |-> 3 * ElemSize, length |-> 3]
  /\ messageTypes[0][1].second.blocks[1].displ > 3 * ElemSize

\* every process returned from every call of the script
AllReturned == \A p \in Procs : \A k \in Calls : outcome[p][k] # "none"

\* C27: when all processes of the peer group call the same exchanges on plans built
\* from symmetric interfaces and the transport eventually delivers every matched
\* message, every process eventually returns from every forward/backward call: no
\* process waits for ever for a receive, for its synchronous sends or in the
\* reduction of the success flag.
C27_EveryProcessReturns == <>[](AllReturned /\ \A p \in Procs : pc[p] = "done")

\* the three ranks of the star, rank 0 with two peers, are all back from both calls,
\* the last one without error and with a receive from every peer
C27_Witness ==
  /\ Peers(0) = {1, 2}
  /\ AllReturned
  /\ \A p \in Procs : outcome[p][MaxCalls] = "ok" /\ pc[p] = "done"
  /\ Len(arrival[0]) = 2

\* the values the gatherer of p writes in a forward (backward) call, from index 0 on
GatherWrites(p, forward) ==
  GatherValues(PeerSeq(p), iface[p], flag, policy, forward,
               IF forward THEN src[p] ELSE dst[p])

\* the assertion sendRecv makes before it posts a slab in a buffer of the given size
SlabAssertion(info, size) == info.start_ * ElemSize + info.size_ <= size

\* C28: in every exchange on a plan built by build and used with the Interface and the
\* layout given to build, every index the gatherer writes satisfies
\* (index+1)*elementSize <= send buffer size, and every slab posted for a send or a
\* receive satisfies offset*elementSize + bytes <= size of the buffer it lies in,
\* forward and backward; the buffers have the sizes the assertions compare with, so
\* no write and no posted slab leaves its allocation.
C28_BufferBounds ==
  \A p \in Procs :
    pc[p] \notin {"start", "idle"} =>
      /\ Len(buffers[p].b0) * ElemSize = bufferSize[p].b0
      /\ Len(buffers[p].b1) * ElemSize = bufferSize[p].b1
      /\ \A index \in 0..(Len(GatherWrites(p, TRUE)) - 1) :
           (index + 1) * ElemSize <= bufferSize[p].b0
      /\ \A index \in 0..(Len(GatherWrites(p, FALSE)) - 1) :
           (index + 1) * ElemSize <= bufferSize[p].b1
      /\ \A q \in DOMAIN msgInfo[p] :
           \* forward: receive in buffers_[1], send from buffers_[0]
           /\ SlabAssertion(msgInfo[p][q].second, bufferSize[p].b1)
           /\ SlabAssertion(msgInfo[p][q].first, bufferSize[p].b0)
           \* backward: receive in buffers_[0], send from buffers_[1]
           /\ SlabAssertion(msgInfo[p][q].first, Len(buffers[p].b0) * ElemSize)
           /\ SlabAssertion(msgInfo[p][q].second, Len(buffers[p].b1) * ElemSize)

\* rank 0, with two peers and entries of several elements, gathered for a backward
\* call: the gatherer wrote up to the last element of buffers_[1], which ends with the
\* slab of the second peer
C28_Witness ==
  /\ flag = "VariableSize" /\ Peers(0) = {1, 2}
  /\ pc[0] = "gathered" /\ ~IsForward(callIdx[0])
  /\ Len(GatherWrites(0, FALSE)) = Len(buffers[0].b1)
  /\ Len(buffers[0].b1) > 2
  /\ buffers[0].b1[Len(buffers[0].b1)] # Uninit
  /\ msgInfo[0][2].second.start_ * ElemSize + msgInfo[0][2].second.size_ = bufferSize[0].b1

\* the processes that hold a built plan
Built == {p \in Procs : pc[p] \notin {"start", "idle"}}

\* C29: with Interfaces built on all ranks from the same index sets and predicates and
\* the same count at a global index on every rank, the number of bytes P sends to Q in
\* a forward exchange is the number Q expects from P, and the number Q sends to P in a
\* backward exchange is the number P expects; a send P posted and the receive Q posted
\* for it belong to the same call and have the same length, so no message is longer or
\* shorter than the receive posted for it.
C29_PairwiseSizeAgreement ==
  \A p \in Built : \A q \in Built \ {p} :
    /\ q \in DOMAIN msgInfo[p] <=> p \in DOMAIN msgInfo[q]
    /\ q \in DOMAIN msgInfo[p] =>
         /\ msgInfo[p][q].first.size_ = msgInfo[q][p].second.size_
         /\ msgInfo[q][p].second.size_ = ElementsOf(p, SendOf(p, q)) * ElemSize
         /\ ElementsOf(p, SendOf(p, q)) = ElementsOf(q, ReceiveOf(q, p))
    /\ (sendReq[p][q] = "posted" /\ recvReq[q][p] = "posted") =>
         /\ callIdx[p] = callIdx[q]
         /\ SendSlab(p, q).size_ = RecvSlab(q, p).size_
         /\ ~Truncated(p, q)

\* a backward call with entries of several elements: the send of rank 1 and the
\* receive of rank 0 are posted, five elements long, while the forward message of
\* rank 1 to rank 0 is a single element
C29_Witness ==
  /\ flag = "VariableSize" /\ Peers(0) = {1}
  /\ ~IsForward(callIdx[1])
  /\ sendReq[1][0] = "posted" /\ recvReq[0][1] = "posted"
  /\ SendSlab(1, 0).size_ = 5 * ElemSize
  /\ msgInfo[1][0].first.size_ = ElemSize

\* q posted, in its call k, the receive for p
PostedReceive(q, p, k) ==
  \/ callIdx[q] > k
  \/ /\ callIdx[q] = k
     /\ pc[q] \in {"recvPosted", "waitAny", "sendWait", "reduce", "done", "failed"}
     /\ recvReq[q][p] # "null"

\* the receive q posted for p in its call k was matched
MatchedReceive(q, p, k) ==
  \/ callIdx[q] > k
  \/ /\ callIdx[q] = k
     /\ pc[q] \in {"recvPosted", "waitAny", "sendWait", "reduce", "done", "failed"}
     /\ recvReq[q][p] \in {"ok", "err", "doneOk", "doneErr"}

\* number of calls p entered
EnteredCalls(p) ==
  IF pc[p] \in {"start", "idle", "ready"} THEN callIdx[p] - 1 ELSE callIdx[p]

\* number of calls p returned from
ReturnedCalls(p) ==
  IF outcome[p][callIdx[p]] = "none" THEN callIdx[p] - 1 ELSE callIdx[p]

\* C30: the synchronous sends make the exchange a rendezvous. A send of P to Q is
\* complete only when Q has entered the same exchange and posted its receive for P,
\* and the receive was matched; so a call of P has not returned before every peer of
\* its plan posted its receive for P in that call, no process has returned from a
\* call a peer has not entered, and while P gathers for its next exchange no send of
\* the previous one is outstanding: every peer received the previous content.
C30_Rendezvous ==
  \A p \in Procs : \A q \in DOMAIN msgInfo[p] :
    /\ sendReq[p][q] \in {"ok", "err"} =>
         PostedReceive(q, p, callIdx[p]) /\ MatchedReceive(q, p, callIdx[p])
    /\ \A k \in Calls :
         outcome[p][k] # "none" => PostedReceive(q, p, k) /\ MatchedReceive(q, p, k)
    /\ ReturnedCalls(p) <= EnteredCalls(q)
    /\ ReturnedCalls(p) <= ReturnedCalls(q) + 1
    /\ pc[p] \in {"ready", "gathered", "recvPosted"} =>
         /\ sendReq[p][q] = "null"
         /\ callIdx[p] > 1 => MatchedReceive(q, p, callIdx[p] - 1)

\* rank 0 is as far ahead as it can get: it returned from the first call, gathered and
\* posted the receives and sends of the second, and waits with its send unmatched
\* while rank 1 has not yet returned from the first call
C30_Witness ==
  /\ Peers(0) = {1}
  /\ outcome[0][1] = "ok" /\ callIdx[0] = 2 /\ pc[0] = "waitAny"
  /\ sendReq[0][1] = "posted"
  /\ callIdx[1] = 1 /\ pc[1] = "reduce" /\ outcome[1][1] = "none"

\* C31: the sequential fallback is a no-op. Whatever calls were made on a
\* SequentialInformation, in any number and order: procs() returned 1, globalSum(t)
\* returned t, and the vectors passed to copyOwnerToAll and project and the object
\* itself are as they were when the object was constructed.
C31_SequentialNoOp ==
  /\ ret.op = "procs" => ret.val = 1
  /\ ret.op = "globalSum" => ret.val = ret.arg
  /\ seqV = seqIn.v
  /\ seqV1 = seqIn.v1
  /\ gli = seqIn.gli

\* globalSum was called with a value that is not 0 on an object whose vectors are
\* different and not all zero
C31_Witness ==
  /\ ret.op = "globalSum" /\ ret.arg > 1
  /\ seqV # seqV1 /\ seqV[1] = 1 /\ gli > 0

\* the rows that have an index in the index set
IndexedRows == {indexSet[k].local : k \in 1..Len(indexSet)}

\* the attribute of the index of a row
AttributeOfRow(r) ==
  indexSet[CHOOSE k \in 1..Len(indexSet) : indexSet[k].local = r].attribute

\* C32: PropertiesGraphCreator::create for the overlapping and the nonoverlapping
\* category sets excluded[p] to of.contains(attribute of p) for every local position p
\* of the parallel index set, so such a vertex is left out of the subgraph exactly
\* when its attribute is in the overlap flag set; the entries of excluded for the
\* positions that are not in the index set keep the value they had before the call.
C32_ExcludedByOverlapFlags ==
  graphs # <<>> =>
    /\ DOMAIN excluded = DOMAIN excludedIn
    /\ \A r \in IndexedRows :
         /\ excluded[r + 1] = (AttributeOfRow(r) \in of)
         /\ r \notin graphs[1].sg <=> AttributeOfRow(r) \in of
    /\ \A r \in Rows \ IndexedRows :
         /\ excluded[r + 1] = excludedIn[r + 1]
         /\ r \notin graphs[1].sg <=> excludedIn[r + 1]

\* create for the nonoverlapping category on an index set that leaves a row out, whose
\* flag was set before and stays set, excludes the copy row and keeps the owner row
C32_Witness ==
  /\ graphs # <<>> /\ category = "nonoverlapping"
  /\ of = {"copy", "overlap"}
  /\ indexSet = <<[local |-> 2, attribute |-> "copy"], [local |-> 0, attribute |-> "owner"]>>
  /\ excludedIn[1] /\ excludedIn[2] /\ ~excludedIn[3]
  /\ ~excluded[1] /\ excluded[2] /\ excluded[3]
  /\ 0 \in graphs[1].sg /\ 1 \notin graphs[1].sg /\ 2 \notin graphs[1].sg

=============================================================================
